---- MODULE Spec2Model ----
\* Tableau assistant: the tool executor (src/mcp/handlers.py with its Tableau
\* and conversion collaborators), the tool-calling chat loop
\* (src/api/ollama_client.py) behind POST /api/chat (src/api/routes.py), the
\* read endpoints GET /api/health and GET /api/tools, and two chat requests
\* processed concurrently.
EXTENDS Naturals, Integers, Sequences, FiniteSets, TLC

VARIABLES
    pc,         \* position of the chat run
    entry,      \* "route" (POST /api/chat) or "direct" (client.chat called directly)
    maxIter,    \* max_iterations of the run
    messages,   \* the conversation list, mutated in place by chat
    response,   \* the latest LLM response
    iteration,  \* chat's local counter
    callIdx,    \* index of the next tool call of the round's for loop
    llmCalls,   \* number of ollama.chat invocations made so far (observer)
    budget,     \* tool calls the LLM stub may still request (bounds the input)
    result,     \* what chat returned
    http,       \* what POST /api/chat answered
    xpc,        \* position of a direct executor invocation
    xname,      \* its tool name
    xargs,      \* its argument mapping
    xenv,       \* the environment it runs in
    xout,       \* its outcome
    apc,        \* position of a request to a read endpoint or of a client construction
    areq,       \* that request, with what the LLM backend answers to it
    aout,       \* what was answered
    runs,       \* the chat runs of concurrently processed POST /api/chat requests
    server,     \* the web server: its event loop and the requests it was sent
    uploads,    \* upload_dataset executions running at once on one file system
    tclient,    \* a TableauClient under a sequence of uses
    sessions,   \* the sessions of the Tableau server over a sequence of invocations
    executed    \* the tool calls a chat run has passed to the executor, in order

chatVars == <<pc, entry, maxIter, messages, response, iteration, callIdx,
              llmCalls, budget, result, http, executed>>
execVars == <<xpc, xname, xargs, xenv, xout>>
apiVars == <<apc, areq, aout>>
sysVars == <<server, uploads, tclient, sessions>>
concVars == <<runs, server, uploads, tclient, sessions>>
vars == <<pc, entry, maxIter, messages, response, iteration, callIdx,
          llmCalls, budget, result, http, xpc, xname, xargs, xenv, xout,
          apc, areq, aout, runs, server, uploads, tclient, sessions,
          executed>>

-----------------------------------------------------------------------------
\* Bounds of the model.

\* most tool calls in one LLM response
MaxCalls == 2
\* most tool calls the LLM stub chooses freely in one run; beyond them it
\* still requests one fixed call per response
MaxToolCalls == 4
\* largest max_iterations a direct caller passes
MaxN == 3
\* most files present in the file system
MaxFiles == 2
\* most collaborator operations failing in one tool execution
MaxFaults == 1

\* Program constants.

\* max_iterations: int = 5
DefaultMaxIterations == 5

-----------------------------------------------------------------------------
\* Python values.

\* None, for string-typed values
None == "<None>"
\* None, for a path-typed value
NonePath == <<>>

\* Python truthiness of an Optional[str]
Truthy(v) == v # None /\ v # ""

\* dict.get(key): None when the key is absent
Get(arguments, key) == IF key \in DOMAIN arguments THEN arguments[key] ELSE None

\* v or default
OrElse(v, default) == IF Truthy(v) THEN v ELSE default

\* whether string s occurs in the formatted text t (a sequence of pieces)
Contains(t, s) == \E i \in 1..Len(t) : t[i] = s

\* an exception: its class and its str()
Exc(type, msg) == [type |-> type, msg |-> msg]
NoExc == [type |-> "", msg |-> <<>>]

\* the outcome of a call: a return value or a raised exception, with the
\* collaborator operations invoked so far and the files present afterwards
Ret(v, eff, fs) ==
    [raised |-> FALSE, value |-> v, exc |-> NoExc, effects |-> eff, files |-> fs]
Raise(e, eff, fs) ==
    [raised |-> TRUE, value |-> None, exc |-> e, effects |-> eff, files |-> fs]

-----------------------------------------------------------------------------
\* Configuration (src/config/settings.py).

settings == [tableau_project_name |-> "Default",
             default_file_directory |-> "/Downloads",
             ollama_model |-> "llama3.1:8b"]

-----------------------------------------------------------------------------
\* Strings that the code takes apart (file names: stems, suffixes, glob
\* patterns) are sequences of characters.

\* the printable ASCII characters in code order, from the space (32) on; "bq"
\* stands for the backquote (96), which a TLA+ string cannot hold
Alphabet ==
    << " ", "!", "\"", "#", "$", "%", "&", "'", "(", ")", "*", "+", ",", "-",
       ".", "/", "0", "1", "2", "3", "4", "5", "6", "7", "8", "9", ":", ";",
       "<", "=", ">", "?", "@", "A", "B", "C", "D", "E", "F", "G", "H", "I",
       "J", "K", "L", "M", "N", "O", "P", "Q", "R", "S", "T", "U", "V", "W",
       "X", "Y", "Z", "[", "\\", "]", "^", "_", "bq", "a", "b", "c", "d",
       "e", "f", "g", "h", "i", "j", "k", "l", "m", "n", "o", "p", "q", "r",
       "s", "t", "u", "v", "w", "x", "y", "z", "{", "|", "}", "~" >>

\* ord(c) - 31 for a character of the alphabet, 0 for any other
Ord(c) ==
    IF \E i \in 1..Len(Alphabet) : Alphabet[i] = c
    THEN CHOOSE i \in 1..Len(Alphabet) : Alphabet[i] = c
    ELSE 0

\* c.lower() for an ASCII character: the letters A to Z (positions 34 to 59)
\* go to a to z, any other character stays
LowerChar(c) ==
    IF Ord(c) \in 34..59 THEN Alphabet[Ord(c) + 32] ELSE c

\* str.lower()
Lower(ext) == [i \in 1..Len(ext) |-> LowerChar(ext[i])]

\* whether s occurs in t as a substring
HasInfix(t, s) ==
    \E i \in 0..(Len(t) - Len(s)) : \A k \in 1..Len(s) : t[i + k] = s[k]

\* the names the model uses
stem_sales == <<"s", "a", "l", "e", "s">>
stem_sales_tar == <<"s", "a", "l", "e", "s", ".", "t", "a", "r">>
dot_hyper == <<".", "h", "y", "p", "e", "r">>
dot_xlsx == <<".", "x", "l", "s", "x">>
dot_xls == <<".", "x", "l", "s">>
dot_xlsm == <<".", "x", "l", "s", "m">>
dot_xlsb == <<".", "x", "l", "s", "b">>
dot_csv == <<".", "c", "s", "v">>
dot_txt == <<".", "t", "x", "t">>
dot_gz == <<".", "g", "z">>
dot_XLSX == <<".", "X", "L", "S", "X">>
dot_CSV == <<".", "C", "S", "V">>

-----------------------------------------------------------------------------
\* Paths (pathlib.Path). A path is its parent directory ("" for a bare file
\* name), its stem and its suffix, the last two as sequences of characters.

MkPath(dir, stem, ext) == [dir |-> dir, stem |-> stem, ext |-> ext]

\* Path(file_path) for the file_path strings of the model
Path(s) ==
    CASE s = "sales"           -> MkPath("", stem_sales, <<>>)
      [] s = "sales.hyper"     -> MkPath("", stem_sales, dot_hyper)
      [] s = "sales.xlsx"      -> MkPath("", stem_sales, dot_xlsx)
      [] s = "sales.XLSX"      -> MkPath("", stem_sales, dot_XLSX)
      [] s = "sales.csv"       -> MkPath("", stem_sales, dot_csv)
      [] s = "sales.txt"       -> MkPath("", stem_sales, dot_txt)
      [] s = "s?les.csv"       -> MkPath("", <<"s", "?", "l", "e", "s">>, dot_csv)
      [] s = "/tmp/sales.xlsx" -> MkPath("/tmp", stem_sales, dot_xlsx)

is_absolute(p) == p.dir # ""

\* path.name
NameOf(p) == p.stem \o p.ext

\* str(path), as pieces: the directory, then the characters of the name
PathStr(p) == IF is_absolute(p) THEN <<p.dir, "/">> \o NameOf(p)
                                ELSE NameOf(p)

\* path.exists() in a file system given as its directory listing
Exists(fs, p) == \E i \in 1..Len(fs) : fs[i] = p

\* parent_dir.exists()
DirExists(env, dir) == dir \in env.dirs

\* fnmatch.translate, the end of the character class that opens before
\* position i of pat (the position of its "]"), 0 when it does not close: a
\* "!" and a "]" right after the "[" do not close it
ClassEnd(pat, i) ==
    LET j == i + (IF i <= Len(pat) /\ pat[i] = "!" THEN 1 ELSE 0)
        k == j + (IF j <= Len(pat) /\ pat[j] = "]" THEN 1 ELSE 0)
    IN  IF \E e \in k..Len(pat) : pat[e] = "]"
        THEN CHOOSE e \in k..Len(pat) :
                 pat[e] = "]" /\ \A d \in k..(e - 1) : pat[d] # "]"
        ELSE 0

RECURSIVE OpsFrom(_, _)
\* fnmatch.translate, the hyphens of a class content that make ranges: the
\* first hyphen at or after position from unless it is the last character,
\* then the next one three positions on
OpsFrom(stuff, from) ==
    IF \A p \in from..Len(stuff) : stuff[p] # "-" THEN {}
    ELSE LET p == CHOOSE q \in from..Len(stuff) :
                      stuff[q] = "-" /\ \A d \in from..(q - 1) : stuff[d] # "-"
         IN  IF p = Len(stuff) THEN {} ELSE {p} \cup OpsFrom(stuff, p + 3)

\* the search starts after the first character, a leading "!" not counted
RangeOps(stuff) == OpsFrom(stuff, IF stuff[1] = "!" THEN 3 ELSE 2)

\* the positions that stay once the empty ranges (lo > hi) are removed, both
\* ends with them
KeptPositions(stuff) ==
    {q \in 1..Len(stuff) :
        \A p \in RangeOps(stuff) :
            Ord(stuff[p - 1]) > Ord(stuff[p + 1]) => q \notin {p - 1, p, p + 1}}

\* the first position that stays, 0 when none does
FirstKept(stuff) ==
    IF KeptPositions(stuff) = {} THEN 0
    ELSE CHOOSE q \in KeptPositions(stuff) : \A r \in KeptPositions(stuff) : q <= r

\* a "!" in front of what stays negates the class
Negated(stuff) == FirstKept(stuff) # 0 /\ stuff[FirstKept(stuff)] = "!"

\* whether character c is one of the members of the class: within a range
\* lo-hi, or one of the other characters
InMembers(c, stuff) ==
    \E q \in KeptPositions(stuff) \ (IF Negated(stuff) THEN {FirstKept(stuff)} ELSE {}) :
        IF q \in RangeOps(stuff) /\ ~(Negated(stuff) /\ q - 1 = FirstKept(stuff))
        THEN Ord(stuff[q - 1]) <= Ord(c) /\ Ord(c) <= Ord(stuff[q + 1])
        ELSE stuff[q] = c

\* whether character c matches the class with content stuff (what stands
\* between "[" and "]")
InClass(c, stuff) ==
    IF Negated(stuff) THEN ~InMembers(c, stuff) ELSE InMembers(c, stuff)

RECURSIVE FnMatch(_, _)
\* re.fullmatch(fnmatch.translate(pat), name): "*" matches any run of
\* characters, "?" any one, "[...]" one of a class, anything else itself;
\* the case counts
FnMatch(pat, name) ==
    IF pat = <<>> THEN name = <<>>
    ELSE IF Head(pat) = "*"
    THEN FnMatch(Tail(pat), name) \/ (name # <<>> /\ FnMatch(pat, Tail(name)))
    ELSE IF name = <<>> THEN FALSE
    ELSE IF Head(pat) = "?" THEN FnMatch(Tail(pat), Tail(name))
    ELSE IF Head(pat) = "[" /\ ClassEnd(pat, 2) # 0
    THEN /\ InClass(Head(name), SubSeq(pat, 2, ClassEnd(pat, 2) - 1))
         /\ FnMatch(SubSeq(pat, ClassEnd(pat, 2) + 1, Len(pat)), Tail(name))
    ELSE Head(name) = Head(pat) /\ FnMatch(Tail(pat), Tail(name))

\* the pattern f"{stem}.*"
StemPattern(stem) == stem \o <<".", "*">>

\* list(parent_dir.glob(f"{stem}.*")): the files of the directory whose
\* names match the pattern, in listing order
Glob(fs, dir, stem) ==
    SelectSeq(fs, LAMBDA f : f.dir = dir /\ FnMatch(StemPattern(stem), NameOf(f)))

\* list(parent_dir.glob("*"))[:10]
GlobAll(fs, dir) ==
    LET all == SelectSeq(fs, LAMBDA f : f.dir = dir)
    IN  SubSeq(all, 1, IF Len(all) < 10 THEN Len(all) ELSE 10)

\* the file system after a conversion wrote p
WriteFile(fs, p) == IF Exists(fs, p) THEN fs ELSE Append(fs, p)

-----------------------------------------------------------------------------
\* The Tableau server and the conversion library, as the environment of one
\* tool execution: env.files is the directory listing, env.faults the
\* collaborator operations that raise, env.projects and env.datasources what
\* the server holds.

FaultPoints == {"sign_in", "sign_out", "projects_get", "datasources_get",
                "publish", "convert"}

\* str() of the exception a failing collaborator operation raises
FaultMsg(point) == <<"collaborator failed: ", point>>

Failing(env, point) == point \in env.faults

\* TableauClient.connect, as __enter__ calls it: sign in, or raise
connect(env, eff, fs) ==
    IF Failing(env, "sign_in")
    THEN Raise(Exc("Exception", FaultMsg("sign_in")), Append(eff, "auth.sign_in"), fs)
    ELSE Ret("client", Append(eff, "auth.sign_in"), fs)

\* sign-out only when the with body ended without an exception
disconnect_on_success(env, body) ==
    IF body.raised THEN body
    ELSE [body EXCEPT !.effects = Append(body.effects, "auth.sign_out")]

\* TableauClient.disconnect, as __exit__ calls it on the outcome of the with
\* body: sign out, swallow a failure of it, and let the body's outcome through
disconnect(env, body) ==
    [body EXCEPT !.effects = Append(body.effects, "auth.sign_out")]

\* index of the first element of seq satisfying Test, 0 when none does
FirstIndex(seq, Test(_)) ==
    IF \E i \in 1..Len(seq) : Test(seq[i])
    THEN CHOOSE i \in 1..Len(seq) :
            Test(seq[i]) /\ \A j \in 1..(i - 1) : ~Test(seq[j])
    ELSE 0

\* get_project_id, lines 57-63: the id of the project at index i
ProjectIdAt(env, i) == IF i = 0 THEN None ELSE env.projects[i].id

\* get_project_id: the id of the first project with that name, None when
\* there is none; raises when listing the projects fails
get_project_id(env, eff, fs, project_name) ==
    IF Failing(env, "projects_get")
    THEN Raise(Exc("Exception", FaultMsg("projects_get")),
               Append(eff, "projects.get"), fs)
    ELSE Ret(ProjectIdAt(env, FirstIndex(env.projects,
                 LAMBDA p : p.name = OrElse(project_name, settings.tableau_project_name))),
             Append(eff, "projects.get"), fs)

\* datasources._resolve_file_path
_resolve_file_path(p) ==
    IF is_absolute(p) THEN p
    ELSE MkPath(settings.default_file_directory, p.stem, p.ext)

ProjectNotFound(project_name) ==
    Exc("Exception", <<"Project '", project_name, "' not found on Tableau Server">>)

\* upload_dataset, lines 103-125: with the project lookup done, publish in
\* overwrite mode and describe the new datasource
Publish(env, fp, project_name, pid) ==
    IF pid.raised THEN pid
    ELSE IF pid.value = None
    THEN Raise(ProjectNotFound(project_name), pid.effects, pid.files)
    ELSE IF Failing(env, "publish")
    THEN Raise(Exc("Exception", FaultMsg("publish")),
               Append(pid.effects, "datasources.publish"), pid.files)
    ELSE Ret([name |-> fp.stem, id |-> "d-new", project_id |-> pid.value,
              file_path |-> PathStr(fp)],
             Append(pid.effects, "datasources.publish"), pid.files)

\* upload_dataset with the project defaulting to the configured one
upload_dataset_defaulting(env, eff, fs, file_path, project_name) ==
    IF ~Exists(fs, _resolve_file_path(file_path))
    THEN Raise(Exc("FileNotFoundError",
             <<"File not found: ">> \o PathStr(_resolve_file_path(file_path))), eff, fs)
    ELSE Publish(env, _resolve_file_path(file_path),
                 OrElse(project_name, settings.tableau_project_name),
                 get_project_id(env, eff, fs, project_name))

\* datasources.upload_dataset: overwrite-mode publish into the named project
upload_dataset(env, eff, fs, file_path, project_name) ==
    IF ~Truthy(project_name)
    THEN Raise(Exc("ValueError", <<"Project name is required">>), eff, fs)
    ELSE IF ~Exists(fs, _resolve_file_path(file_path))
    THEN Raise(Exc("FileNotFoundError",
             <<"File not found: ">> \o PathStr(_resolve_file_path(file_path))), eff, fs)
    ELSE Publish(env, _resolve_file_path(file_path), project_name,
                 get_project_id(env, eff, fs, project_name))

\* check_dataset, lines 162-178: the first datasource at index i, or none
\* when i = 0
CheckResult(env, dataset_name, pn, i) ==
    IF i # 0
    THEN [exists |-> TRUE, name |-> env.datasources[i].name,
          id |-> env.datasources[i].id,
          project_id |-> env.datasources[i].project_id, project |-> None]
    ELSE [exists |-> FALSE, name |-> dataset_name, id |-> None,
          project_id |-> None, project |-> pn]

\* the search by name alone, in any project
CheckIn_by_name(env, dataset_name, pn, pid) ==
    IF pid.raised THEN pid
    ELSE IF pid.value = None THEN Raise(ProjectNotFound(pn), pid.effects, pid.files)
    ELSE IF Failing(env, "datasources_get")
    THEN Raise(Exc("Exception", FaultMsg("datasources_get")),
               Append(pid.effects, "datasources.get"), pid.files)
    ELSE Ret(CheckResult(env, dataset_name, pn,
                 FirstIndex(env.datasources, LAMBDA ds : ds.name = dataset_name)),
             Append(pid.effects, "datasources.get"), pid.files)

\* check_dataset, lines 155-178: with the project lookup done
CheckIn(env, dataset_name, pn, pid) ==
    IF pid.raised THEN pid
    ELSE IF pid.value = None THEN Raise(ProjectNotFound(pn), pid.effects, pid.files)
    ELSE IF Failing(env, "datasources_get")
    THEN Raise(Exc("Exception", FaultMsg("datasources_get")),
               Append(pid.effects, "datasources.get"), pid.files)
    ELSE Ret(CheckResult(env, dataset_name, pn,
                 FirstIndex(env.datasources,
                     LAMBDA ds : ds.name = dataset_name /\ ds.project_id = pid.value)),
             Append(pid.effects, "datasources.get"), pid.files)

\* datasources.check_dataset: the first datasource with that name in the
\* resolved project
check_dataset(env, eff, fs, dataset_name, project_name) ==
    CheckIn(env, dataset_name, OrElse(project_name, settings.tableau_project_name),
            get_project_id(env, eff, fs,
                OrElse(project_name, settings.tableau_project_name)))

\* DatasetInfo of a listed datasource
ListedInfo(ds) ==
    [name |-> ds.name, id |-> ds.id, project_id |-> ds.project_id,
     file_path |-> NonePath]

RECURSIVE MapListed(_)
MapListed(seq) ==
    IF seq = <<>> THEN <<>>
    ELSE <<ListedInfo(Head(seq))>> \o MapListed(Tail(seq))

\* list_datasets, lines 206-222: with the project lookup done
ListIn(env, pn, pid) ==
    IF pid.raised THEN pid
    ELSE IF pid.value = None THEN Raise(ProjectNotFound(pn), pid.effects, pid.files)
    ELSE IF Failing(env, "datasources_get")
    THEN Raise(Exc("Exception", FaultMsg("datasources_get")),
               Append(pid.effects, "datasources.get"), pid.files)
    ELSE Ret(MapListed(SelectSeq(env.datasources,
                 LAMBDA ds : ds.project_id = pid.value)),
             Append(pid.effects, "datasources.get"), pid.files)

\* datasources.list_datasets: the datasources of the resolved project
list_datasets(env, eff, fs, project_name) ==
    ListIn(env, OrElse(project_name, settings.tableau_project_name),
           get_project_id(env, eff, fs,
               OrElse(project_name, settings.tableau_project_name)))

\* the ConversionResult of a conversion of source: the Hyper file goes next
\* to the source, under the same stem
Converted(source) ==
    [input_file |-> PathStr(source),
     output |-> MkPath(source.dir, source.stem, dot_hyper),
     rows |-> "rows", columns |-> "columns"]

\* converters._find_excel_file, line 60
excel_extensions == <<dot_xlsx, dot_xls, dot_xlsm, dot_xlsb>>

\* converters._find_excel_file, lines 50-75: the resolved path when it
\* exists, else the file with its stem and the Excel extension at index i,
\* and FileNotFoundError when there is none (i = 0)
FindExcel(fs, resolved, i) ==
    IF Exists(fs, resolved) THEN Ret(resolved, <<>>, fs)
    ELSE IF i # 0
    THEN Ret(MkPath(resolved.dir, resolved.stem, excel_extensions[i]), <<>>, fs)
    ELSE Raise(Exc("FileNotFoundError",
             <<"Excel file not found: ">> \o PathStr(resolved)
             \o <<". Tried extensions: ", ".xlsx, .xls, .xlsm, .xlsb">>), <<>>, fs)

\* converters._find_excel_file: resolve the path against the default
\* directory, then take the file itself or the first existing file with
\* its stem and an Excel extension
_find_excel_file(fs, p) ==
    FindExcel(fs, _resolve_file_path(p),
        FirstIndex(excel_extensions,
            LAMBDA e : Exists(fs, MkPath(_resolve_file_path(p).dir, p.stem, e))))

\* convert_excel_to_hyper, lines 103-131: with the Excel file looked for
ConvertFound(env, eff, fs, found) ==
    IF found.raised
    THEN Raise(found.exc, Append(eff, "convert_excel_to_hyper"), fs)
    ELSE IF Failing(env, "convert")
    THEN Raise(Exc("Exception", FaultMsg("convert")),
               Append(eff, "convert_excel_to_hyper"), fs)
    ELSE Ret(Converted(found.value), Append(eff, "convert_excel_to_hyper"),
             WriteFile(fs, MkPath(found.value.dir, found.value.stem, dot_hyper)))

\* converters.convert_excel_to_hyper, without a hyper_file_path
convert_excel_to_hyper(env, eff, fs, path) ==
    ConvertFound(env, eff, fs, _find_excel_file(fs, path))

\* convert_csv_to_hyper, lines 160-190: with the path resolved
ConvertCsv(env, eff, fs, resolved) ==
    IF ~Exists(fs, resolved)
    THEN Raise(Exc("FileNotFoundError", <<"CSV file not found: ">> \o PathStr(resolved)),
               Append(eff, "convert_csv_to_hyper"), fs)
    ELSE IF Failing(env, "convert")
    THEN Raise(Exc("Exception", FaultMsg("convert")),
               Append(eff, "convert_csv_to_hyper"), fs)
    ELSE Ret(Converted(resolved), Append(eff, "convert_csv_to_hyper"),
             WriteFile(fs, MkPath(resolved.dir, resolved.stem, dot_hyper)))

\* converters.convert_csv_to_hyper, without a hyper_file_path: resolve the
\* path against the default directory first
convert_csv_to_hyper(env, eff, fs, path) ==
    ConvertCsv(env, eff, fs, _resolve_file_path(path))

-----------------------------------------------------------------------------
\* The tool executor (src/mcp/handlers.py).

possible_extensions == <<dot_hyper, dot_xlsx, dot_xls, dot_csv, dot_xlsm, dot_xlsb>>

ExcelExtensions == {dot_xlsx, dot_xls, dot_xlsm, dot_xlsb}

RECURSIVE Names(_)
\* "\n".join(f"  - {f.name}" for f in files), as pieces
Names(files) ==
    IF files = <<>> THEN <<>>
    ELSE <<"  - ">> \o NameOf(Head(files)) \o Names(Tail(files))

\* _handle_upload_dataset, lines 128-153: the file at path, or the first
\* file of the directory with its stem
ResolveExisting(env, path, file_extension, all_files) ==
    IF Exists(env.files, path)
    THEN Ret([path |-> path, file_extension |-> file_extension], <<>>, env.files)
    ELSE IF ~DirExists(env, path.dir)
    THEN Raise(Exc("FileNotFoundError", <<"Directory not found: ", path.dir>>),
               <<>>, env.files)
    ELSE IF HasInfix(StemPattern(path.stem), <<"*", "*">>)
    THEN Raise(Exc("ValueError",
             <<"Invalid pattern: '**' can only be an entire path component">>),
               <<>>, env.files)
    ELSE IF all_files # <<>>
    THEN Ret([path |-> all_files[1], file_extension |-> Lower(all_files[1].ext)],
             <<>>, env.files)
    ELSE Raise(Exc("FileNotFoundError",
             <<"File not found: ">> \o PathStr(path)
             \o <<"Available files in ", path.dir>>
             \o Names(GlobAll(env.files, path.dir))), <<>>, env.files)

\* _handle_upload_dataset, lines 105-126: a path without extension becomes
\* the first existing file among the possible extensions (index i, 0 when
\* there is none)
ResolveExtension(env, path, i) ==
    IF i = 0
    THEN Raise(Exc("FileNotFoundError",
             <<"Could not find file '">> \o path.stem
             \o <<"' with extensions: ",
                  "['.hyper', '.xlsx', '.xls', '.csv', '.xlsm', '.xlsb']",
                  ". Searched in: ", path.dir>>),
             <<>>, env.files)
    ELSE ResolveExisting(env, MkPath(path.dir, path.stem, possible_extensions[i]),
                         possible_extensions[i], <<>>)

\* _handle_upload_dataset, lines 102-153: path is absolute here
ResolveSuffix(env, path) ==
    IF Lower(path.ext) = <<>>
    THEN ResolveExtension(env, path,
             FirstIndex(possible_extensions,
                 LAMBDA e : Exists(env.files, MkPath(path.dir, path.stem, e))))
    ELSE ResolveExisting(env, path, Lower(path.ext),
                         Glob(env.files, path.dir, path.stem))

\* _handle_upload_dataset, lines 94-97: prepend the default directory
ResolveDirectory(env, path) ==
    ResolveSuffix(env, _resolve_file_path(path))

\* _handle_upload_dataset, lines 86-153: from the file_path argument to the
\* file to process and its extension
ResolveUpload(env, file_path) ==
    IF is_absolute(Path(file_path)) /\ ~Exists(env.files, Path(file_path))
    THEN ResolveDirectory(env, MkPath("", Path(file_path).stem, Path(file_path).ext))
    ELSE ResolveDirectory(env, Path(file_path))

\* the conversion_info of a conversion
ConversionInfo(converted_from, path, conv) ==
    IF conv.raised THEN conv
    ELSE Ret([hyper_path |-> conv.value.output,
              conversion_info |-> [converted_from |-> converted_from,
                                   original_file |-> PathStr(path),
                                   rows |-> conv.value.rows,
                                   columns |-> conv.value.columns]],
             conv.effects, conv.files)

\* a CSV file passed through like a Hyper file
ConvertUpload_csv_as_is(env, fs, path, file_extension) ==
    IF file_extension \in ExcelExtensions
    THEN ConversionInfo("Excel", path, convert_excel_to_hyper(env, <<>>, fs, path))
    ELSE IF file_extension \in {dot_csv, dot_hyper}
    THEN Ret([hyper_path |-> path, conversion_info |-> None], <<>>, fs)
    ELSE Raise(Exc("ValueError",
             <<"Unsupported file format: ">> \o file_extension
             \o <<". Supported formats: .hyper, .xlsx, .xls, .csv">>), <<>>, fs)

\* _handle_upload_dataset, lines 155-190: convert a spreadsheet or CSV file,
\* pass a Hyper file through, refuse anything else. The value is the Hyper
\* file to upload and the conversion info (None without a conversion).
ConvertUpload(env, fs, path, file_extension) ==
    IF file_extension \in ExcelExtensions
    THEN ConversionInfo("Excel", path, convert_excel_to_hyper(env, <<>>, fs, path))
    ELSE IF file_extension = dot_csv
    THEN ConversionInfo("CSV", path, convert_csv_to_hyper(env, <<>>, fs, path))
    ELSE IF file_extension = dot_hyper
    THEN Ret([hyper_path |-> path, conversion_info |-> None], <<>>, fs)
    ELSE Raise(Exc("ValueError",
             <<"Unsupported file format: ">> \o file_extension
             \o <<". Supported formats: .hyper, .xlsx, .xls, .csv">>), <<>>, fs)

\* _handle_upload_dataset, lines 201-208: the upload's DatasetInfo, with the
\* key "conversion" after a conversion (None stands for its absence)
UploadResult(conversion_info, up) ==
    IF up.raised THEN up
    ELSE Ret([name |-> up.value.name, id |-> up.value.id,
              project_id |-> up.value.project_id,
              file_path |-> up.value.file_path,
              conversion |-> conversion_info], up.effects, up.files)

\* _handle_upload_dataset, lines 194-199: the with block around the upload
UploadWith(env, tableau_project, hyper_path, conversion_info, cl) ==
    IF cl.raised THEN cl
    ELSE UploadResult(conversion_info,
             disconnect(env, upload_dataset(env, cl.effects, cl.files,
                                            hyper_path, tableau_project)))

\* the session opened before the outcome of the conversion is looked at
UploadConverted_eager(env, tableau_project, cv) ==
    IF cv.raised
    THEN [cv EXCEPT !.effects = cv.effects \o <<"auth.sign_in", "auth.sign_out">>]
    ELSE UploadWith(env, tableau_project, cv.value.hyper_path,
                    cv.value.conversion_info, connect(env, cv.effects, cv.files))

\* _handle_upload_dataset, lines 155-208: with the conversion done
UploadConverted(env, tableau_project, cv) ==
    IF cv.raised THEN cv
    ELSE UploadWith(env, tableau_project, cv.value.hyper_path,
                    cv.value.conversion_info, connect(env, cv.effects, cv.files))

\* _handle_upload_dataset, lines 155-208: with the file resolved
UploadResolved(env, tableau_project, res) ==
    IF res.raised THEN res
    ELSE UploadConverted(env, tableau_project,
             ConvertUpload(env, res.files, res.value.path, res.value.file_extension))

\* _handle_upload_dataset: resolve the file, convert it when it is a
\* spreadsheet or CSV file, then sign in and upload
_handle_upload_dataset(env, arguments) ==
    IF ~Truthy(Get(arguments, "file_path"))
    THEN Raise(Exc("ValueError", <<"Missing required parameter: ", "file_path">>),
               <<>>, env.files)
    ELSE UploadResolved(env, Get(arguments, "tableau_project"),
                        ResolveUpload(env, Get(arguments, "file_path")))

\* _handle_check_dataset, lines 220-227: the with block
CheckWith(env, dataset_name, tableau_project, cl) ==
    IF cl.raised THEN cl
    ELSE disconnect(env, check_dataset(env, cl.effects, cl.files,
                                       dataset_name, tableau_project))

\* _handle_check_dataset
_handle_check_dataset(env, arguments) ==
    IF ~Truthy(Get(arguments, "dataset_name"))
    THEN Raise(Exc("ValueError", <<"Missing required parameter: ", "dataset_name">>),
               <<>>, env.files)
    ELSE CheckWith(env, Get(arguments, "dataset_name"),
                   Get(arguments, "tableau_project"), connect(env, <<>>, env.files))

\* _handle_list_datasets, lines 241-244: count and dump the datasets
ListResult(ls) ==
    IF ls.raised THEN ls
    ELSE Ret([count |-> Len(ls.value), datasets |-> ls.value], ls.effects, ls.files)

\* _handle_list_datasets, lines 235-244: the with block
ListWith(env, tableau_project, cl) ==
    IF cl.raised THEN cl
    ELSE ListResult(disconnect(env, list_datasets(env, cl.effects, cl.files,
                                                  tableau_project)))

\* _handle_list_datasets
_handle_list_datasets(env, arguments) ==
    ListWith(env, Get(arguments, "tableau_project"), connect(env, <<>>, env.files))

\* the routing with list_datasets as the last branch
Dispatch_default_list(name, arguments, env) ==
    IF name = "upload_dataset" THEN _handle_upload_dataset(env, arguments)
    ELSE IF name = "check_dataset" THEN _handle_check_dataset(env, arguments)
    ELSE _handle_list_datasets(env, arguments)

\* handle_tool_call, lines 38-46: route to the handler
Dispatch(name, arguments, env) ==
    IF name = "upload_dataset" THEN _handle_upload_dataset(env, arguments)
    ELSE IF name = "check_dataset" THEN _handle_check_dataset(env, arguments)
    ELSE IF name = "list_datasets" THEN _handle_list_datasets(env, arguments)
    ELSE Raise(Exc("ValueError", <<"Unknown tool: ", name>>), <<>>, env.files)

\* [TextContent(type="text", text=json.dumps(...))]: the JSON object is kept
\* as a record
TextContent(json) == <<[type |-> "text", text |-> json]>>

\* the success envelope of handle_tool_call, and nothing for an exception
Unguarded(name, r) ==
    IF r.raised THEN r
    ELSE Ret(TextContent([status |-> "success", action |-> name, result |-> r.value]),
             r.effects, r.files)

\* handle_tool_call, lines 48-69: the handler's result as a success envelope,
\* any exception as an error envelope
Envelope(name, r) ==
    IF r.raised
    THEN Ret(TextContent([status |-> "error", action |-> name, message |-> r.exc.msg]),
             r.effects, r.files)
    ELSE Ret(TextContent([status |-> "success", action |-> name, result |-> r.value]),
             r.effects, r.files)

\* handle_tool_call
handle_tool_call(name, arguments, env) ==
    Envelope(name, Dispatch(name, arguments, env))

\* _execute_tool, lines 78-88: the text of the executor's answer, or an
\* error object when the executor raised
ResultText(r) ==
    IF r.raised
    THEN [status |-> "error", message |-> r.exc.msg]
    ELSE r.value[1].text

\* OllamaClient._execute_tool
_execute_tool(tool_name, tool_args, env) ==
    ResultText(handle_tool_call(tool_name, tool_args, env))

-----------------------------------------------------------------------------
\* The tool registry (src/mcp/tools.py): name, properties and required
\* arguments of each definition, in registry order.

get_tool_definitions ==
    << [name |-> "upload_dataset",
        properties |-> {"file_path", "tableau_project"},
        required |-> {"file_path", "tableau_project"}],
       [name |-> "check_dataset",
        properties |-> {"dataset_name", "tableau_project"},
        required |-> {"dataset_name"}],
       [name |-> "list_datasets",
        properties |-> {"tableau_project"},
        required |-> {}] >>

RegistryNames == {get_tool_definitions[i].name : i \in 1..Len(get_tool_definitions)}

Definition(name) ==
    get_tool_definitions[CHOOSE i \in 1..Len(get_tool_definitions) :
                             get_tool_definitions[i].name = name]

-----------------------------------------------------------------------------
\* Inputs of a direct executor invocation.

\* what the Tableau server holds
ServerProjects ==
    << [name |-> "Default", id |-> "p0"], [name |-> "Sales", id |-> "p1"] >>
ServerDatasources ==
    << [name |-> "sales", id |-> "d0", project_id |-> "p0"],
       [name |-> "sales", id |-> "d1", project_id |-> "p1"],
       [name |-> "costs", id |-> "d2", project_id |-> "p1"] >>

FileUniverse ==
    { MkPath("/Downloads", stem_sales, dot_hyper), MkPath("/Downloads", stem_sales, dot_xlsx),
      MkPath("/Downloads", stem_sales, dot_csv), MkPath("/Downloads", stem_sales, dot_txt),
      MkPath("/tmp", stem_sales, dot_xlsx) }

\* files whose names differ from the usual ones by the case of the suffix, by
\* a second dot or by a dot after which nothing follows (no suffix then)
OddNames ==
    { MkPath("/Downloads", stem_sales, dot_CSV),
      MkPath("/Downloads", stem_sales_tar, dot_gz),
      MkPath("/Downloads", stem_sales \o <<".">>, <<>>) }

\* sequences of at most MaxFiles distinct files of universe
ListingsOf(universe) ==
    UNION { { l \in [1..n -> universe] :
                \A i, j \in 1..n : i # j => l[i] # l[j] } : n \in 0..MaxFiles }

\* directory listings: of the usual files, or of the odd ones
Listings == ListingsOf(FileUniverse) \cup ListingsOf(OddNames)

FaultSets == { f \in SUBSET FaultPoints : Cardinality(f) <= MaxFaults }

\* the environments with one of the listings: the default directory may be
\* missing when it holds no file
Envs(listings) ==
    { [files |-> l, dirs |-> {l[i].dir : i \in 1..Len(l)} \cup d, faults |-> f,
       projects |-> ServerProjects, datasources |-> ServerDatasources] :
      l \in listings, d \in {{}, {settings.default_file_directory}}, f \in FaultSets }

\* the environments with listing l
EnvsOf(l) == Envs({l})

\* an argument that is not passed
Absent == "<absent>"

\* the mapping {k1: v1, k2: v2} without the arguments that are not passed
Args2(k1, v1, k2, v2) ==
    [k \in {k \in {k1} : v1 # Absent} \cup {k \in {k2} : v2 # Absent} |->
        IF k = k1 THEN v1 ELSE v2]

FilePathArgs == {Absent, "", "sales", "sales.hyper", "sales.xlsx", "sales.XLSX",
                 "sales.csv", "sales.txt", "s?les.csv", "/tmp/sales.xlsx"}
ProjectArgs == {Absent, "", "Sales", "Marketing"}
DatasetArgs == {Absent, "", "sales", "costs", "budget"}
UnknownNames == {"convert_excel_to_hyper", "delete_dataset"}

\* the invocations of the executor: of each tool, and of names that are not
\* tools
UploadInputs ==
    { [name |-> "upload_dataset", args |-> Args2("file_path", fp, "tableau_project", tp),
       env |-> e] :
      fp \in FilePathArgs, tp \in ProjectArgs, e \in Envs(Listings) }
CheckInputs ==
    { [name |-> "check_dataset", args |-> Args2("dataset_name", dn, "tableau_project", tp),
       env |-> e] :
      dn \in DatasetArgs, tp \in ProjectArgs, e \in EnvsOf(<<>>) }
ListInputs ==
    { [name |-> "list_datasets", args |-> Args2("tableau_project", tp, "unused", Absent),
       env |-> e] :
      tp \in ProjectArgs, e \in EnvsOf(<<>>) }
UnknownInputs ==
    { [name |-> n, args |-> Args2("excel_file_path", fp, "unused", Absent), env |-> e] :
      n \in UnknownNames, fp \in {Absent, "sales.xlsx"}, e \in EnvsOf(<<>>) }

NoEnv == [files |-> <<>>, dirs |-> {settings.default_file_directory}, faults |-> {},
          projects |-> ServerProjects, datasources |-> ServerDatasources]
NoOut == Ret(None, <<>>, <<>>)

\* before the first LLM response
NoResponse == [message |-> [role |-> "", content |-> <<>>, tool_calls |-> <<>>]]

\* chat has not returned
NoResult == [returned |-> FALSE]

\* the route has not answered
NoHttp == [answered |-> FALSE]

\* no chat run
ChatOff ==
    /\ pc = "off" /\ entry = "none" /\ maxIter = 0 /\ messages = <<>>
    /\ response = NoResponse /\ iteration = 0 /\ callIdx = 0 /\ llmCalls = 0
    /\ budget = 0 /\ result = NoResult /\ http = NoHttp /\ executed = <<>>

\* no direct executor invocation
ExecOff ==
    /\ xpc = "off" /\ xname = "" /\ xargs = <<>> /\ xenv = NoEnv /\ xout = NoOut

\* no request
NoRequest == [endpoint |-> "none"]

\* nothing answered
NoAnswer == [answered |-> FALSE]

\* no request to a read endpoint and no client construction
ApiOff == apc = "off" /\ areq = NoRequest /\ aout = NoAnswer

\* no server, no uploads running at once, no client under test
NotUsed == [used |-> FALSE]
SysOff ==
    server = NotUsed /\ uploads = NotUsed /\ tclient = NotUsed /\ sessions = NotUsed

\* no concurrently processed requests
ConcOff == runs = <<>> /\ SysOff

\* the executor is about to be invoked as inp says
ExecDrawn(inp) == xname = inp.name /\ xargs = inp.args /\ xenv = inp.env

InitExec ==
    /\ ChatOff
    /\ ApiOff
    /\ ConcOff
    /\ xpc = "ready"
    /\ \/ \E inp \in UploadInputs : ExecDrawn(inp)
       \/ \E inp \in CheckInputs : ExecDrawn(inp)
       \/ \E inp \in ListInputs : ExecDrawn(inp)
       \/ \E inp \in UnknownInputs : ExecDrawn(inp)
    /\ xout = NoOut

\* handle_tool_call(name, arguments) in the environment drawn
ExecuteTool ==
    /\ xpc = "ready"
    /\ xout' = handle_tool_call(xname, xargs, xenv)
    /\ xpc' = "done"
    /\ UNCHANGED <<xname, xargs, xenv>>
    /\ UNCHANGED <<chatVars, apiVars, concVars>>

NextExec == ExecuteTool

ExecSpec == InitExec /\ [][NextExec]_vars

\* the JSON object of the executor's answer
XText == xout.value[1].text

-----------------------------------------------------------------------------
\* The read endpoints (GET /api/health, GET /api/tools in src/api/routes.py)
\* and the construction of the client with its tool list
\* (OllamaClient.__init__).

\* the first sentence of a tool's description
ToolDescription(name) ==
    CASE name = "upload_dataset" -> "Upload a dataset file to Tableau Server. "
      [] name = "check_dataset"  -> "Check if a dataset exists in Tableau Server. "
      [] name = "list_datasets"  -> "List all datasets in a Tableau project. "

\* the inputSchema of a definition
InputSchema(d) ==
    [type |-> "object", properties |-> d.properties, required |-> d.required]

\* Tool(name=..., description=..., inputSchema=...)
Tool(d) ==
    [name |-> d.name, description |-> ToolDescription(d.name),
     inputSchema |-> InputSchema(d)]

\* the list get_tool_definitions() returns
mcp_tools == [i \in 1..Len(get_tool_definitions) |-> Tool(get_tool_definitions[i])]

\* the tool list without the tools that take no required argument
_convert_dropping_optional(tools) ==
    LET kept == SelectSeq(tools, LAMBDA tool : tool.inputSchema.required # {})
    IN  [i \in 1..Len(kept) |->
            [type |-> "function",
             function |-> [name |-> kept[i].name,
                           description |-> kept[i].description,
                           parameters |-> kept[i].inputSchema]]]

\* OllamaClient._convert_mcp_tools_to_ollama_format over the list tools
_convert_mcp_tools_to_ollama_format(tools) ==
    [i \in 1..Len(tools) |->
        [type |-> "function",
         function |-> [name |-> tools[i].name,
                       description |-> tools[i].description,
                       parameters |-> tools[i].inputSchema]]]

\* OllamaClient.__init__(model)
OllamaClient(model) ==
    [model |-> OrElse(model, settings.ollama_model),
     tools |-> _convert_mcp_tools_to_ollama_format(mcp_tools)]

\* get_ollama_client(model)
get_ollama_client(model) == OllamaClient(model)

\* JSONResponse(content=..., status_code=...)
JSONResponse(status_code, content) == [status_code |-> status_code, content |-> content]

\* the route GET /api/tools, lines 74-85: the registry as name, description
\* and parameters
list_tools ==
    JSONResponse(200,
        [tools |-> [i \in 1..Len(mcp_tools) |->
                       [name |-> mcp_tools[i].name,
                        description |-> mcp_tools[i].description,
                        parameters |-> mcp_tools[i].inputSchema]]])

\* m.get('name', m.get('model', 'unknown')); a key the entry lacks holds
\* Absent
ModelName(m) ==
    IF m.name # Absent THEN m.name
    ELSE IF m.model # Absent THEN m.model
    ELSE "unknown"

\* check_health, lines 192-208: the model names in an answer of ollama.list()
available_models(models) ==
    IF models.kind = "dict" /\ "models" \in models.keys
    THEN [i \in 1..Len(models.models) |-> ModelName(models.models[i])]
    ELSE IF models.kind = "dict" /\ "model" \in models.keys
    THEN <<models.model>>
    ELSE IF models.kind = "list"
    THEN [i \in 1..Len(models.models) |-> ModelName(models.models[i])]
    ELSE <<>>

\* OllamaClient.check_health: listing is the outcome of ollama.list()
check_health(client, listing) ==
    IF listing.raised
    THEN Ret([status |-> "unhealthy", ollama_running |-> FALSE,
              error |-> listing.exc.msg], <<>>, <<>>)
    ELSE Ret([status |-> "healthy", ollama_running |-> TRUE,
              current_model |-> client.model,
              available_models |-> available_models(listing.value),
              tools_count |-> Len(client.tools)], <<>>, <<>>)

\* the route GET /api/health, lines 105-119, on the outcome of check_health:
\* the status dictionary as it is, or 503 when an exception reached the route
HealthAnswer(health_status) ==
    IF health_status.raised
    THEN JSONResponse(503, [status |-> "unhealthy", error |-> health_status.exc.msg])
    ELSE JSONResponse(200, health_status.value)

\* the route GET /api/health
health_check(listing) ==
    HealthAnswer(check_health(get_ollama_client(None), listing))

\* Inputs: what ollama.list() answers, and the model a client is built for.

\* most models the LLM backend lists
MaxModels == 3

\* entries with a name, with a model only, with neither
ModelEntries == { [name |-> "llama3.1:8b", model |-> Absent],
                  [name |-> Absent, model |-> "mistral"],
                  [name |-> Absent, model |-> Absent] }

ModelLists == UNION { [1..n -> ModelEntries] : n \in 0..MaxModels }

\* an answer of ollama.list(): a dict with its keys, a list, or another
\* object; models is the list under 'models' (or the list itself), model the
\* value under 'model'
Listed(kind, keys, models, model) ==
    Ret([kind |-> kind, keys |-> keys, models |-> models, model |-> model], <<>>, <<>>)

OllamaListOutcomes ==
    { Listed("dict", {"models"}, l, "") : l \in ModelLists }
    \cup { Listed("list", {}, l, "") : l \in ModelLists }
    \cup { Listed("dict", {"model"}, <<>>, "llama3.1:8b"),
           Listed("dict", {"error"}, <<>>, ""),
           Listed("object", {}, <<>>, "") }
    \cup { Raise(Exc("ConnectionError", <<"Failed to connect to Ollama">>), <<>>, <<>>),
           Raise(Exc("ResponseError", <<"internal error">>), <<>>, <<>>) }

ApiRequests ==
    { [endpoint |-> "health", list |-> o] : o \in OllamaListOutcomes }
    \cup { [endpoint |-> "tools"] }
    \cup { [endpoint |-> "client", model |-> m] : m \in {None, "", "mistral"} }

InitApi ==
    /\ ChatOff
    /\ ExecOff
    /\ ConcOff
    /\ apc = "ready"
    /\ areq \in ApiRequests
    /\ aout = NoAnswer

\* GET /api/health
HealthCheck ==
    /\ apc = "ready" /\ areq.endpoint = "health"
    /\ aout' = health_check(areq.list)
    /\ apc' = "done"
    /\ UNCHANGED <<areq, chatVars, execVars, concVars>>

\* GET /api/tools
ListTools ==
    /\ apc = "ready" /\ areq.endpoint = "tools"
    /\ aout' = list_tools
    /\ apc' = "done"
    /\ UNCHANGED <<areq, chatVars, execVars, concVars>>

\* OllamaClient(model)
NewClient ==
    /\ apc = "ready" /\ areq.endpoint = "client"
    /\ aout' = get_ollama_client(areq.model)
    /\ apc' = "done"
    /\ UNCHANGED <<areq, chatVars, execVars, concVars>>

NextApi == HealthCheck \/ ListTools \/ NewClient

ApiSpec == InitApi /\ [][NextApi]_vars

-----------------------------------------------------------------------------

\* The chat loop (OllamaClient.chat) behind POST /api/chat.

\* the tool calls the LLM stub emits; the last two lack the function name or
\* the arguments mapping
CallCheck ==
    [function |-> [name |-> "check_dataset", arguments |-> [dataset_name |-> "sales"]]]
CallConvert ==
    [function |-> [name |-> "convert_excel_to_hyper",
                   arguments |-> [excel_file_path |-> "sales.xlsx"]]]
CallNoName == [function |-> [arguments |-> [dataset_name |-> "sales"]]]
CallNoArguments == [function |-> [name |-> "list_datasets"]]

ChatCalls == {CallCheck, CallConvert, CallNoName, CallNoArguments}

WellFormed(tool_call) ==
    "name" \in DOMAIN tool_call.function /\ "arguments" \in DOMAIN tool_call.function

\* the environments a tool call of a chat run executes in: Tableau reachable
\* or not
ChatEnvs == {NoEnv, [NoEnv EXCEPT !.faults = {"sign_in"}]}

\* the tool_calls of a response: any sequence of calls while the stub's
\* budget lasts, and always none or one fixed call
ToolCallSeqs(b) ==
    UNION { [1..n -> ChatCalls] : n \in 0..(IF b < MaxCalls THEN b ELSE MaxCalls) }
    \cup {<<CallConvert>>}

\* the n-th response of the LLM: its text names it
LLMResponse(n, tool_calls) ==
    [message |-> [role |-> "assistant", content |-> <<"reply ", ToString(n)>>,
                  tool_calls |-> tool_calls]]

\* only the first tool call of a response is taken up
ToolCallsOf_first(resp) ==
    IF resp.message.tool_calls = <<>> THEN <<>>
    ELSE <<resp.message.tool_calls[1]>>

\* response.get('message', {}).get('tool_calls')
ToolCallsOf(resp) == resp.message.tool_calls

InitialConversations ==
    { << [role |-> "user", content |-> "upload sales"] >>,
      << [role |-> "user", content |-> "hello"],
         [role |-> "assistant", content |-> "hi"],
         [role |-> "user", content |-> "check sales"] >> }

TruncationMessage ==
    <<"I've executed multiple operations but need to stop here to avoid ",
      "an infinite loop. Here's what I've done so far based on the tool results.">>

InitChat ==
    /\ ExecOff
    /\ ApiOff
    /\ ConcOff
    /\ pc = "llm_first"
    /\ entry \in {"route", "direct"}
    /\ maxIter \in IF entry = "route" THEN {DefaultMaxIterations} ELSE 0..MaxN
    /\ messages \in InitialConversations
    /\ response = NoResponse
    /\ iteration = 0
    /\ callIdx = 0
    /\ llmCalls = 0
    /\ budget = MaxToolCalls
    /\ result = NoResult
    /\ http = NoHttp
    /\ executed = <<>>

\* the exception swallowed: chat returns its text as the final message
Raised_swallowed(e) ==
    /\ pc' = "done"
    /\ result' = [message |-> e.msg, iterations |-> iteration]
    /\ http' = IF entry = "route"
               THEN [status_code |-> 200,
                     body |-> [message |-> e.msg, role |-> "assistant",
                               iterations |-> iteration]]
               ELSE http
    /\ UNCHANGED <<entry, maxIter, messages, response, iteration, callIdx, budget>>

\* an exception leaves chat (logged and re-raised, line 178-180); the route
\* turns it into a 500 (routes.py, lines 57-62)
Raised(e) ==
    /\ pc' = "raised"
    /\ http' = IF entry = "route"
               THEN [status_code |-> 500,
                     detail |-> <<"Chat processing failed: ">> \o e.msg]
               ELSE http
    /\ UNCHANGED <<entry, maxIter, messages, response, iteration, callIdx,
                   budget, result>>

LLMDown == Exc("ConnectionError", <<"Failed to connect to Ollama">>)

\* ollama.chat(model, messages, tools): a response, or an exception
InvokeLLM ==
    \/ /\ \E tc \in ToolCallSeqs(budget) :
            /\ response' = LLMResponse(llmCalls + 1, tc)
            /\ budget' = IF Len(tc) < budget THEN budget - Len(tc) ELSE 0
       /\ pc' = "loop"
       /\ UNCHANGED <<entry, maxIter, messages, iteration, callIdx, result, http>>
    \/ Raised(LLMDown)

\* line 116: the initial LLM call
LLMFirst ==
    /\ pc = "llm_first"
    /\ llmCalls' = llmCalls + 1
    /\ InvokeLLM
    /\ UNCHANGED executed
    /\ UNCHANGED <<execVars, apiVars, concVars>>

\* line 157: the LLM call after a round
LLMNext ==
    /\ pc = "llm_next"
    /\ llmCalls' = llmCalls + 1
    /\ InvokeLLM
    /\ UNCHANGED executed
    /\ UNCHANGED <<execVars, apiVars, concVars>>

\* the loop condition with the bound included
LoopCondition_inclusive(it, max) == it <= max

\* the loop without its bound
LoopCondition_unbounded(it, max) == TRUE

\* line 123: while iteration < max_iterations
LoopCondition(it, max) == it < max

\* the truncation test with the bound excluded
FinalMessage_strict(it, max, resp) ==
    IF it > max /\ ToolCallsOf(resp) # <<>>
    THEN TruncationMessage
    ELSE resp.message.content

\* the truncation message whenever the bound was reached
FinalMessage_cap_only(it, max, resp) ==
    IF it >= max
    THEN TruncationMessage
    ELSE resp.message.content

\* lines 164-171: the truncation message when the cap was hit with tool calls
\* pending, the response's text otherwise
FinalMessage(it, max, resp) ==
    IF it >= max /\ ToolCallsOf(resp) # <<>>
    THEN TruncationMessage
    ELSE resp.message.content

\* lines 173-176, and the route's ChatResponse (routes.py, lines 51-55)
Return(it) ==
    /\ result' = [message |-> FinalMessage(it, maxIter, response), iterations |-> it]
    /\ http' = IF entry = "route"
               THEN [status_code |-> 200,
                     body |-> [message |-> FinalMessage(it, maxIter, response),
                               role |-> "assistant", iterations |-> it]]
               ELSE http
    /\ pc' = "done"
    /\ UNCHANGED <<messages, callIdx>>

\* lines 123-137: one pass of the while loop up to the for loop, or the exit
\* from the loop and the return
Loop ==
    /\ pc = "loop"
    /\ IF LoopCondition(iteration, maxIter)
       THEN /\ iteration' = iteration + 1
            /\ IF ToolCallsOf(response) = <<>>
               THEN Return(iteration + 1)
               ELSE /\ messages' = Append(messages, response.message)
                    /\ callIdx' = 1
                    /\ pc' = "tools"
                    /\ UNCHANGED <<result, http>>
       ELSE /\ iteration' = iteration
            /\ Return(iteration)
    /\ UNCHANGED <<entry, maxIter, response, llmCalls, budget, executed>>
    /\ UNCHANGED <<execVars, apiVars, concVars>>

\* the tool message dropped when the tool failed
AddToolResult_skip_errors(msgs, tool_result) ==
    IF tool_result.status = "error" THEN msgs
    ELSE Append(msgs, [role |-> "tool", content |-> tool_result])

\* the tool message put right behind the assistant message
AddToolResult_first(msgs, tool_result) ==
    LET a == CHOOSE i \in 1..Len(msgs) :
                 /\ msgs[i].role = "assistant"
                 /\ \A j \in (i + 1)..Len(msgs) : msgs[j].role = "tool"
    IN  SubSeq(msgs, 1, a) \o <<[role |-> "tool", content |-> tool_result]>>
        \o SubSeq(msgs, a + 1, Len(msgs))

\* an error result written over the last message instead of appended
AddToolResult_overwrite_errors(msgs, tool_result) ==
    IF tool_result.status = "error"
    THEN [msgs EXCEPT ![Len(msgs)] = [role |-> "tool", content |-> tool_result]]
    ELSE Append(msgs, [role |-> "tool", content |-> tool_result])

\* lines 150-153: messages.append({'role': 'tool', 'content': tool_result})
AddToolResult(msgs, tool_result) ==
    Append(msgs, [role |-> "tool", content |-> tool_result])

\* lines 140-153: one pass of the for loop over the round's tool calls. A
\* call without function name or arguments raises KeyError out of chat.
ToolCall ==
    /\ pc = "tools"
    /\ LET tool_call == ToolCallsOf(response)[callIdx] IN
       IF ~("name" \in DOMAIN tool_call.function)
       THEN Raised(Exc("KeyError", <<"'name'">>)) /\ UNCHANGED executed
       ELSE IF ~("arguments" \in DOMAIN tool_call.function)
       THEN Raised(Exc("KeyError", <<"'arguments'">>)) /\ UNCHANGED executed
       ELSE /\ executed' = Append(executed, tool_call)
            /\ \E env \in ChatEnvs :
                 messages' = AddToolResult(messages,
                     _execute_tool(tool_call.function.name,
                                   tool_call.function.arguments, env))
            /\ callIdx' = callIdx + 1
            /\ pc' = IF callIdx = Len(ToolCallsOf(response)) THEN "llm_next" ELSE "tools"
            /\ UNCHANGED <<entry, maxIter, response, iteration, budget, result, http>>
    /\ UNCHANGED llmCalls
    /\ UNCHANGED <<execVars, apiVars, concVars>>

Init == InitChat

Next == LLMFirst \/ Loop \/ ToolCall \/ LLMNext

Spec == Init /\ [][Next]_vars

\* every LLM call and every tool execution returns, and the run goes on
FairSpec == Spec /\ WF_vars(Next)

-----------------------------------------------------------------------------
-----------------------------------------------------------------------------
\* Two POST /api/chat requests processed in any interleaving of their steps.
\* Each request has the list the route builds from it (routes.py, lines
\* 38-41), its own client (line 44) and chat's locals.

\* most tool calls the LLM stub requests in one of the concurrent runs
MaxConcToolCalls == 2

\* the tool calls of the concurrent runs, executed with Tableau reachable
ConcCalls == {CallCheck, CallConvert}

\* the tool_calls of a response while the stub's budget lasts
ConcToolCallSeqs(b) ==
    UNION { [1..n -> ConcCalls] : n \in 0..(IF b < MaxCalls THEN b ELSE MaxCalls) }

\* the run of a request at the start of chat: initial is the conversation
\* of the request, own the messages the run appended, passes the passes of
\* its while loop (observers)
NewRun(conversation) ==
    [pc |-> "llm_first", initial |-> conversation, messages |-> conversation,
     own |-> <<>>, tools |-> get_ollama_client(None).tools,
     response |-> NoResponse, iteration |-> 0, passes |-> 0, callIdx |-> 0,
     llmCalls |-> 0, budget |-> MaxConcToolCalls, http |-> NoHttp]

\* one list for all requests
Conversation_shared(rs, r) == rs[1].messages

\* the list run r works on: the one the route built for its request
Conversation(rs, r) == rs[r].messages

InitConc ==
    /\ ChatOff
    /\ ExecOff
    /\ ApiOff
    /\ SysOff
    /\ \E c1, c2 \in InitialConversations : runs = <<NewRun(c1), NewRun(c2)>>

\* the run after an LLM invocation that answered with tool_calls tc
Answered(run, tc) ==
    [run EXCEPT !.response = LLMResponse(run.llmCalls + 1, tc),
                !.llmCalls = run.llmCalls + 1,
                !.budget = run.budget - Len(tc),
                !.pc = "loop"]

\* the run after an LLM invocation that failed
Failed(run) ==
    [run EXCEPT !.llmCalls = run.llmCalls + 1,
                !.pc = "raised",
                !.http = [status_code |-> 500,
                          detail |-> <<"Chat processing failed: ">> \o LLMDown.msg]]

\* lines 116 and 157: an LLM invocation of run r
ConcLLM(r) ==
    /\ runs[r].pc \in {"llm_first", "llm_next"}
    /\ \/ \E tc \in ConcToolCallSeqs(runs[r].budget) :
             runs' = [runs EXCEPT ![r] = Answered(runs[r], tc)]
       \/ runs' = [runs EXCEPT ![r] = Failed(runs[r])]
    /\ UNCHANGED <<chatVars, execVars, apiVars, sysVars>>

\* lines 164-176 and the route's ChatResponse: the run returned
Returned(run, it) ==
    [run EXCEPT !.pc = "done",
                !.iteration = it,
                !.http = [status_code |-> 200,
                          body |-> [message |->
                                        FinalMessage(it, DefaultMaxIterations, run.response),
                                    role |-> "assistant", iterations |-> it]]]

\* lines 123-137: a pass of the while loop of run r with tool calls to
\* execute
Entered(rs, r) ==
    [rs[r] EXCEPT !.iteration = rs[r].iteration + 1,
                  !.passes = rs[r].passes + 1,
                  !.messages = Append(Conversation(rs, r), rs[r].response.message),
                  !.own = Append(rs[r].own, rs[r].response.message),
                  !.callIdx = 1,
                  !.pc = "tools"]

\* lines 123-137 and 164-176 for run r
ConcLoop(r) ==
    /\ runs[r].pc = "loop"
    /\ runs' = [runs EXCEPT ![r] =
          IF ~LoopCondition(runs[r].iteration, DefaultMaxIterations)
          THEN Returned(runs[r], runs[r].iteration)
          ELSE IF ToolCallsOf(runs[r].response) = <<>>
          THEN Returned([runs[r] EXCEPT !.passes = runs[r].passes + 1],
                        runs[r].iteration + 1)
          ELSE Entered(runs, r)]
    /\ UNCHANGED <<chatVars, execVars, apiVars, sysVars>>

\* lines 140-153: the run after the tool call at callIdx, with tool_result
\* appended to its list
Executed(rs, r, tool_result) ==
    [rs[r] EXCEPT !.messages = AddToolResult(Conversation(rs, r), tool_result),
                  !.own = Append(rs[r].own, [role |-> "tool", content |-> tool_result]),
                  !.callIdx = rs[r].callIdx + 1,
                  !.pc = IF rs[r].callIdx = Len(ToolCallsOf(rs[r].response))
                         THEN "llm_next" ELSE "tools"]

\* lines 140-153 for run r
ConcToolCall(r) ==
    /\ runs[r].pc = "tools"
    /\ runs' = [runs EXCEPT ![r] =
          Executed(runs, r,
              _execute_tool(ToolCallsOf(runs[r].response)[runs[r].callIdx].function.name,
                            ToolCallsOf(runs[r].response)[runs[r].callIdx].function.arguments,
                            NoEnv))]
    /\ UNCHANGED <<chatVars, execVars, apiVars, sysVars>>

NextConc == \E r \in {1, 2} : ConcLLM(r) \/ ConcLoop(r) \/ ConcToolCall(r)

ConcSpec == InitConc /\ [][NextConc]_vars

-----------------------------------------------------------------------------
\* The web server (main.py: uvicorn with one worker process). Every route of
\* src/api/routes.py is a coroutine without an await, so a handler keeps the
\* event loop from the moment it is started until it returns, also while it
\* waits for ollama.chat, ollama.list or a collaborator of a tool.

RequestKinds == {"chat", "tools", "health"}

\* a request the server was not sent yet
Unsent(kind) == [kind |-> kind, at |-> "unsent", rounds |-> 0]

InitServer ==
    /\ ChatOff
    /\ ExecOff
    /\ ApiOff
    /\ runs = <<>>
    /\ uploads = NotUsed
    /\ tclient = NotUsed
    /\ sessions = NotUsed
    /\ \E k1, k2 \in RequestKinds :
          server = [loop |-> 0, reqs |-> <<Unsent(k1), Unsent(k2)>>]

\* where a handler is right after it was started: chat in its first
\* ollama.chat (ollama_client.py, line 116), the health check in ollama.list
\* (line 190); the tool listing has nothing to wait for and returns
Started(req) ==
    [req EXCEPT !.at = CASE req.kind = "chat"   -> "llm"
                         [] req.kind = "health" -> "listing"
                         [] req.kind = "tools"  -> "done"]

\* a client sends request r
Arrive(r) ==
    /\ server.reqs[r].at = "unsent"
    /\ server' = [server EXCEPT !.reqs[r].at = "pending"]
    /\ UNCHANGED <<chatVars, execVars, apiVars, runs, uploads, tclient, sessions>>

\* the event loop, free, starts the handler of request r
Accept(r) ==
    /\ server.reqs[r].at = "pending"
    /\ server.loop = 0
    /\ server' = [server EXCEPT !.reqs[r] = Started(server.reqs[r]),
                                !.loop = IF Started(server.reqs[r]).at = "done"
                                         THEN 0 ELSE r]
    /\ UNCHANGED <<chatVars, execVars, apiVars, runs, uploads, tclient, sessions>>

\* chat may start another tool round: the loop condition of line 123, with
\* max_iterations left at its default by the route (routes.py:48)
MayStartRound(req) == req.rounds < DefaultMaxIterations

\* the request after its handler returned or raised: the route answers (200,
\* or 500 after an exception, routes.py:57-62)
Ended(req) == [req EXCEPT !.at = "done"]

\* the ollama.chat call the chat handler of request r waits in returns
\* (ollama_client.py:116, 157): with tool calls, the handler starts a round
\* and runs on to the first collaborator call of a tool, or, when no tool of
\* the round calls a collaborator (an unknown tool, a refused argument), to
\* the ollama.chat call that ends the round, or it leaves chat by the
\* KeyError of a malformed call (lines 141-142); without tool calls, or with
\* the rounds used up, chat returns
ResumeLLM(r) ==
    /\ server.loop = r
    /\ server.reqs[r].at = "llm"
    /\ \/ /\ MayStartRound(server.reqs[r])
          /\ \E next \in {"tool", "llm"} :
                server' = [server EXCEPT !.reqs[r].at = next,
                                         !.reqs[r].rounds = server.reqs[r].rounds + 1]
       \/ /\ MayStartRound(server.reqs[r])
          /\ server' = [server EXCEPT
                          !.reqs[r] = Ended([server.reqs[r] EXCEPT
                                               !.rounds = server.reqs[r].rounds + 1]),
                          !.loop = 0]
       \/ server' = [server EXCEPT !.reqs[r] = Ended(server.reqs[r]), !.loop = 0]

\* the last collaborator call of the round's tools returns: the handler runs
\* on to the ollama.chat call that ends the round (line 157), or leaves chat
\* by the KeyError of a later, malformed call of the round
ResumeTool(r) ==
    /\ server.loop = r
    /\ server.reqs[r].at = "tool"
    /\ \/ server' = [server EXCEPT !.reqs[r].at = "llm"]
       \/ server' = [server EXCEPT !.reqs[r] = Ended(server.reqs[r]), !.loop = 0]

\* the ollama.list call of the health check returns (line 190)
ResumeListing(r) ==
    /\ server.loop = r
    /\ server.reqs[r].at = "listing"
    /\ server' = [server EXCEPT !.reqs[r] = Ended(server.reqs[r]), !.loop = 0]

\* the call the handler of request r waits for returns, and the handler
\* runs on to its next call or to its end
Resume(r) ==
    /\ ResumeLLM(r) \/ ResumeTool(r) \/ ResumeListing(r)
    /\ UNCHANGED <<chatVars, execVars, apiVars, runs, uploads, tclient, sessions>>

NextServer == \E r \in {1, 2} : Arrive(r) \/ Accept(r) \/ Resume(r)

ServerSpec == InitServer /\ [][NextServer]_vars

\* What the claims speak of.

\* an assistant message carrying tool calls
IsToolCallMsg(m) == "tool_calls" \in DOMAIN m /\ m.tool_calls # <<>>

\* the positions of the assistant tool-call messages appended by the run
RoundPositions == {i \in 1..Len(messages) : IsToolCallMsg(messages[i])}

\* the number of tool-execution rounds of the run
Rounds == Cardinality(RoundPositions)

Terminated == pc \in {"done", "raised"}

\* the tool calls of the round that starts at position i
CallsAt(i) == messages[i].tool_calls

\* the number of tool messages the round at position i has so far: all of
\* its calls, unless it is the round whose for loop is running or was left
\* by an exception
AnsweredAt(i) ==
    IF pc \in {"tools", "raised"} /\ \A j \in RoundPositions : j <= i
    THEN Len(messages) - i
    ELSE Len(CallsAt(i))

\* the outcome the executor can give a tool call
IsResultOf(content, tool_call) ==
    \E env \in ChatEnvs :
        content = _execute_tool(tool_call.function.name,
                                tool_call.function.arguments, env)

\* the LLM answered every call so far with tool calls
LLMKeepsCalling == ToolCallsOf(response) # <<>>

-----------------------------------------------------------------------------
\* C1 as claimed: with an LLM that requests a tool call in every response, a
\* run with max_iterations = N ends with the truncation message and
\* iterations = N after exactly N LLM invocations and N rounds.
C1_ExactlyNInvocations ==
    (pc = "done" /\ LLMKeepsCalling) =>
        /\ llmCalls = maxIter
        /\ Rounds = maxIter
        /\ result.message = TruncationMessage
        /\ result.iterations = maxIter

\* C1 amended: with an LLM that requests a tool call in every response, a
\* run with max_iterations = N ends with the truncation message and
\* iterations = N after exactly N + 1 LLM invocations (the initial one and
\* one after each round) and N rounds; no run makes an (N+2)th invocation.
C1_NPlusOneInvocations ==
    /\ llmCalls <= maxIter + 1
    /\ (pc = "done" /\ LLMKeepsCalling) =>
          /\ llmCalls = maxIter + 1
          /\ Rounds = maxIter
          /\ result.message = TruncationMessage
          /\ result.iterations = maxIter

C1_Witness ==
    /\ pc = "done" /\ LLMKeepsCalling
    /\ maxIter = MaxN /\ entry = "direct" /\ Rounds = MaxN

\* C2: every run terminates, never runs more than max_iterations rounds,
\* and a run the cap stops returns the fixed synthetic message.
C2_BoundedTermination ==
    /\ <>Terminated
    /\ [](Rounds <= maxIter)
    /\ []((pc = "done" /\ LLMKeepsCalling) => result.message = TruncationMessage)

C2_Witness ==
    /\ pc = "done" /\ LLMKeepsCalling /\ entry = "route"
    /\ Rounds = DefaultMaxIterations /\ result.message = TruncationMessage

\* C3: at each LLM invocation after the first, every tool call of every
\* assistant tool-call message of the conversation has exactly one tool
\* message: the calls of a round are followed by as many tool messages, one
\* per call, and then by no further tool message.
C3_AllCallsAnswered ==
    pc = "llm_next" =>
        \A i \in RoundPositions :
            /\ i + Len(CallsAt(i)) <= Len(messages)
            /\ \A j \in 1..Len(CallsAt(i)) : messages[i + j].role = "tool"
            /\ (i + Len(CallsAt(i)) < Len(messages)
                    => messages[i + Len(CallsAt(i)) + 1].role # "tool")

C3_Witness ==
    /\ pc = "llm_next" /\ Rounds = 2
    /\ \E i \in RoundPositions :
          /\ Len(CallsAt(i)) = 2
          /\ messages[i + 1].content.status = "error"

\* C4: the assistant tool-call message of a round of well-formed calls
\* c1..ck is immediately followed by the tool messages holding the results
\* of c1, c2, ... in that order, by all k of them once the round is over,
\* and by no other tool message.
C4_ResultsInCallOrder ==
    \A i \in RoundPositions :
        (\A j \in 1..Len(CallsAt(i)) : WellFormed(CallsAt(i)[j])) =>
            /\ i + AnsweredAt(i) <= Len(messages)
            /\ \A j \in 1..AnsweredAt(i) :
                  /\ messages[i + j].role = "tool"
                  /\ IsResultOf(messages[i + j].content, CallsAt(i)[j])
            /\ (i + AnsweredAt(i) < Len(messages)
                    => messages[i + AnsweredAt(i) + 1].role # "tool")

C4_Witness ==
    /\ pc = "llm_next"
    /\ \E i \in RoundPositions :
          /\ CallsAt(i) = <<CallCheck, CallConvert>>
          /\ messages[i + 1].content.action = "check_dataset"
          /\ messages[i + 2].content.action = "convert_excel_to_hyper"

\* C5: when the round count has reached max_iterations and the latest
\* response still carries tool calls, chat returns the fixed synthetic
\* message in its next step, with no further LLM call and with the
\* conversation left as it is.
C5_CapStopsPendingCalls ==
    [][(pc = "loop" /\ iteration >= maxIter /\ ToolCallsOf(response) # <<>>) =>
          /\ pc' = "done"
          /\ result'.message = TruncationMessage
          /\ llmCalls' = llmCalls
          /\ messages' = messages]_vars

C5_Witness ==
    /\ pc = "done" /\ result.message = TruncationMessage
    /\ maxIter = 2 /\ Len(ToolCallsOf(response)) = 2
    /\ messages[Len(messages)].role = "tool"

\* C6 as claimed: the iterations value chat returns, and the one POST
\* /api/chat reports, is the number of tool-execution rounds of the run.
C6_IterationsAreRounds ==
    pc = "done" =>
        /\ result.iterations = Rounds
        /\ (entry = "route" => http.body.iterations = Rounds)

-----------------------------------------------------------------------------
\* Claims about the tool executor, checked under ExecSpec.

\* the collaborator operations of the executor: conversion, Tableau session,
\* project lookup, publish, datasource listing
Invoked(op) == Contains(xout.effects, op)

\* C7: for a tool name that is not in the registry, handle_tool_call returns
\* an error envelope whose message contains the name, does not raise and
\* invokes no collaborator.
C7_UnknownToolIsError ==
    (xpc = "done" /\ xname \notin RegistryNames) =>
        /\ ~xout.raised
        /\ XText.status = "error"
        /\ Contains(XText.message, xname)
        /\ xout.effects = <<>>

C7_Witness ==
    /\ xpc = "done" /\ xname = "convert_excel_to_hyper"
    /\ "excel_file_path" \in DOMAIN xargs
    /\ XText.message = <<"Unknown tool: ", "convert_excel_to_hyper">>

\* C8 as claimed: for a registered tool called without one argument its
\* schema requires (the other required ones given), handle_tool_call returns
\* an error envelope whose message names that argument, and no collaborator
\* is invoked.
C8_MissingRequiredArgument ==
    (xpc = "done" /\ xname \in RegistryNames) =>
        \A a \in Definition(xname).required :
            (/\ a \notin DOMAIN xargs
             /\ \A b \in Definition(xname).required \ {a} : Truthy(Get(xargs, b))) =>
                /\ ~xout.raised
                /\ XText.status = "error"
                /\ Contains(XText.message, a)
                /\ xout.effects = <<>>

\* C9: an upload_dataset call whose tableau_project is absent or empty
\* yields an error envelope, never publishes and never looks up a project
\* (so never the configured default one).
C9_UploadNeedsProject ==
    (/\ xpc = "done" /\ xname = "upload_dataset"
     /\ ~Truthy(Get(xargs, "tableau_project"))) =>
        /\ ~xout.raised
        /\ XText.status = "error"
        /\ ~Invoked("datasources.publish")
        /\ ~Invoked("projects.get")

C9_Witness ==
    /\ xpc = "done" /\ xname = "upload_dataset"
    /\ "tableau_project" \notin DOMAIN xargs
    /\ Exists(xenv.files, MkPath("/Downloads", stem_sales, dot_hyper))
    /\ Get(xargs, "file_path") = "sales.hyper"
    /\ xenv.faults = {}
    /\ XText.message = <<"Project name is required">>

\* the collaborator operation that raises at a fault point
FaultOps(point) ==
    CASE point = "sign_in"         -> {"auth.sign_in"}
      [] point = "projects_get"    -> {"projects.get"}
      [] point = "datasources_get" -> {"datasources.get"}
      [] point = "publish"         -> {"datasources.publish"}
      [] point = "convert"         -> {"convert_excel_to_hyper", "convert_csv_to_hyper"}

\* the failure a handler ran into: the exception Dispatch ends with
Cause == Dispatch(xname, xargs, xenv).exc

\* C10: handle_tool_call never raises; it returns a single result, a success
\* or an error envelope whose action is the requested tool name, and when
\* the handler failed (a collaborator that raised, a file or project that
\* was not found, a bad argument) the envelope is an error whose message is
\* the stringified cause.
C10_NeverRaises ==
    xpc = "done" =>
        /\ ~xout.raised
        /\ Len(xout.value) = 1
        /\ XText.status \in {"success", "error"}
        /\ XText.action = xname
        /\ Dispatch(xname, xargs, xenv).raised =>
              (XText.status = "error" /\ XText.message = Cause.msg)
        /\ \A point \in (xenv.faults \ {"sign_out"}) :
              (\E op \in FaultOps(point) : Invoked(op)) =>
                  (XText.status = "error" /\ XText.message = FaultMsg(point))

C10_Witness ==
    /\ xpc = "done" /\ xname = "upload_dataset"
    /\ xenv.faults = {"publish"} /\ Invoked("datasources.publish")
    /\ XText.status = "error" /\ XText.message = FaultMsg("publish")

-----------------------------------------------------------------------------
\* Claims about failures in the chat loop, checked under Spec.

\* the tool call the for loop is at
CurrentCall == ToolCallsOf(response)[callIdx]

\* the tool message holding the outcome of tool_call in environment env
ToolMessage(tool_call, env) ==
    [role |-> "tool",
     content |-> _execute_tool(tool_call.function.name,
                               tool_call.function.arguments, env)]

\* the details of the 500 answers that do not come from a failed LLM call
\* or tool: a tool call without function name or arguments
KeyErrorDetails == { <<"Chat processing failed: ", "'name'">>,
                     <<"Chat processing failed: ", "'arguments'">> }

\* C11: a tool execution that yields an error result (like one that yields
\* a success) has its result appended as a tool message, after which the
\* loop goes on with the next tool call of the round or, after the last
\* one, with the next LLM invocation; a request answered with a 500 was
\* stopped by a failed LLM call or a tool call without name or arguments,
\* never by the outcome of a tool, and a request whose chat returned is
\* answered with a 200.
C11_ToolErrorsFedBack ==
    /\ [][(/\ pc = "tools" /\ WellFormed(CurrentCall)
           /\ \E env \in ChatEnvs : ToolMessage(CurrentCall, env).content.status = "error") =>
             /\ \E env \in ChatEnvs :
                   messages' = Append(messages, ToolMessage(CurrentCall, env))
             /\ callIdx' = callIdx + 1
             /\ pc' = IF callIdx < Len(ToolCallsOf(response)) THEN "tools" ELSE "llm_next"
             /\ http' = http]_vars
    /\ []((pc = "done" /\ entry = "route") => http.status_code = 200)
    /\ []((pc = "raised" /\ entry = "route") =>
             /\ http.status_code = 500
             /\ \/ http.detail = <<"Chat processing failed: ">> \o LLMDown.msg
                \/ http.detail \in KeyErrorDetails)

C11_Witness ==
    /\ pc = "done" /\ entry = "route" /\ http.status_code = 200
    /\ \E i \in 1..(Len(messages) - 1) :
          /\ messages[i].role = "tool" /\ messages[i].content.status = "error"
          /\ messages[i + 1].role = "tool"
          /\ messages[i + 1].content.status = "success"

\* C12: an LLM invocation (the initial one or one after a round) that does
\* not deliver a response makes chat raise: no result is returned, and the
\* route answers 500 with a detail string.
C12_LLMFailurePropagates ==
    /\ [][(pc \in {"llm_first", "llm_next"} /\ pc' # "loop") =>
             /\ pc' = "raised"
             /\ result' = NoResult
             /\ entry = "route" =>
                   /\ http'.status_code = 500
                   /\ http'.detail = <<"Chat processing failed: ">> \o LLMDown.msg
             /\ entry = "direct" => http' = NoHttp]_vars
    /\ [](pc = "raised" => result = NoResult)

C12_Witness ==
    /\ pc = "raised" /\ entry = "route" /\ llmCalls = 2 /\ Rounds = 1
    /\ result = NoResult
    /\ http.status_code = 500
    /\ http.detail = <<"Chat processing failed: ", "Failed to connect to Ollama">>

-----------------------------------------------------------------------------
\* Claims about the upload, the session and the lookup, checked under
\* ExecSpec.

\* the file and extension _handle_upload_dataset resolves file_path to
Resolved == ResolveUpload(xenv, Get(xargs, "file_path"))

\* an upload_dataset execution that got past the resolution of the file
UploadResolvedRun ==
    /\ xpc = "done" /\ xname = "upload_dataset"
    /\ Truthy(Get(xargs, "file_path"))
    /\ ~Resolved.raised

\* how many times the collaborator operation op was invoked
Count(op) == Cardinality({i \in 1..Len(xout.effects) : xout.effects[i] = op})

Conversions == {"convert_excel_to_hyper", "convert_csv_to_hyper"}

\* the conversion collaborator for an extension
ConverterOf(ext) ==
    IF ext = dot_csv THEN "convert_csv_to_hyper" ELSE "convert_excel_to_hyper"

\* C13: in an upload_dataset execution whose resolved file is a spreadsheet
\* or CSV file, the conversion is the first collaborator invoked, is invoked
\* once, and sign-in and publish follow only if it completed; the file of a
\* successful upload is the conversion's output. For a Hyper file no
\* conversion is invoked and the file itself is uploaded. For any other
\* extension the result is an error naming the unsupported format, with
\* neither conversion nor upload invoked.
C13_ConvertBeforeUpload ==
    UploadResolvedRun =>
        /\ Resolved.value.file_extension \in ExcelExtensions \cup {dot_csv} =>
              /\ xout.effects # <<>>
              /\ xout.effects[1] = ConverterOf(Resolved.value.file_extension)
              /\ Count("convert_excel_to_hyper") + Count("convert_csv_to_hyper") = 1
              /\ "convert" \in xenv.faults => Len(xout.effects) = 1
              /\ XText.status = "success" =>
                    /\ Invoked("datasources.publish")
                    /\ XText.result.file_path =
                          PathStr(MkPath(Resolved.value.path.dir,
                                         Resolved.value.path.stem, dot_hyper))
        /\ Resolved.value.file_extension = dot_hyper =>
              /\ \A op \in Conversions : ~Invoked(op)
              /\ XText.status = "success" =>
                    XText.result.file_path = PathStr(Resolved.value.path)
        /\ Resolved.value.file_extension \notin ExcelExtensions \cup {dot_csv, dot_hyper} =>
              /\ XText.status = "error"
              /\ Contains(XText.message, "Unsupported file format: ")
              /\ HasInfix(XText.message, Resolved.value.file_extension)
              /\ xout.effects = <<>>

C13_Witness ==
    /\ UploadResolvedRun
    /\ Get(xargs, "file_path") = "sales.txt"
    /\ Resolved.value.file_extension = dot_csv
    /\ XText.status = "success"
    /\ xout.effects = <<"convert_csv_to_hyper", "auth.sign_in", "projects.get",
                        "datasources.publish", "auth.sign_out">>

\* the operations on a signed-in Tableau session
TableauOps == {"projects.get", "datasources.publish", "datasources.get"}

\* the invocation signed in to Tableau
SignedIn == Invoked("auth.sign_in") /\ ~Failing(xenv, "sign_in")

-----------------------------------------------------------------------------
\* Claims about the read endpoints and the registry.

\* C15 as claimed: when listing the models of the LLM backend fails, GET
\* /api/health responds with status 503 and a body whose status is
\* "unhealthy", with an error field.
C15_UnreachableIs503 ==
    (apc = "done" /\ areq.endpoint = "health" /\ areq.list.raised) =>
        /\ aout.status_code = 503
        /\ aout.content.status = "unhealthy"
        /\ "error" \in DOMAIN aout.content

\* the operations the registry is said to hold
FourOperations ==
    {"upload_dataset", "check_dataset", "list_datasets", "convert_excel_to_hyper"}

\* C16 as claimed: the registry holds the four operations upload_dataset,
\* check_dataset, list_datasets and convert_excel_to_hyper, and the executor
\* answers none of these names with an "Unknown tool" error.
C16_FourOperations ==
    xpc = "done" =>
        /\ FourOperations \subseteq RegistryNames
        /\ xname \in FourOperations =>
              ~(XText.status = "error" /\ XText.message = <<"Unknown tool: ", xname>>)

\* C20: the client's tool list and the answer of GET /api/tools hold one
\* entry per definition of the registry, in registry order, with the
\* definition's name, description and input schema; every entry of the
\* client's list has type "function" and parameters with the keys type,
\* properties and required; the client's list is not empty.
C20_ToolsMirrorRegistry ==
    /\ (apc = "done" /\ areq.endpoint = "client") =>
          /\ Len(aout.tools) > 0
          /\ Len(aout.tools) = Len(get_tool_definitions)
          /\ \A i \in 1..Len(aout.tools) :
                /\ aout.tools[i].type = "function"
                /\ aout.tools[i].function.name = get_tool_definitions[i].name
                /\ aout.tools[i].function.description =
                      ToolDescription(get_tool_definitions[i].name)
                /\ aout.tools[i].function.parameters =
                      InputSchema(get_tool_definitions[i])
                /\ {"type", "properties", "required"}
                      \subseteq DOMAIN aout.tools[i].function.parameters
    /\ (apc = "done" /\ areq.endpoint = "tools") =>
          /\ aout.status_code = 200
          /\ Len(aout.content.tools) = Len(get_tool_definitions)
          /\ \A i \in 1..Len(aout.content.tools) :
                /\ aout.content.tools[i].name = get_tool_definitions[i].name
                /\ aout.content.tools[i].description =
                      ToolDescription(get_tool_definitions[i].name)
                /\ aout.content.tools[i].parameters =
                      InputSchema(get_tool_definitions[i])

C20_Witness ==
    /\ apc = "done" /\ areq.endpoint = "client" /\ areq.model = None
    /\ aout.model = "llama3.1:8b"
    /\ Len(aout.tools) = 3
    /\ aout.tools[3].function.name = "list_datasets"
    /\ aout.tools[3].function.parameters.required = {}

-----------------------------------------------------------------------------
\* Claims about the dataset lookup, checked under ExecSpec.

\* the project a check_dataset call searches: the one named, or the
\* configured one
CheckedProject == OrElse(Get(xargs, "tableau_project"), settings.tableau_project_name)

\* the datasources of the server with that name in that project
Matching(dataset_name, project_id) ==
    {i \in 1..Len(xenv.datasources) :
        /\ xenv.datasources[i].name = dataset_name
        /\ xenv.datasources[i].project_id = project_id}

\* a check_dataset execution whose collaborators answer
CheckRun ==
    /\ xpc = "done" /\ xname = "check_dataset"
    /\ Truthy(Get(xargs, "dataset_name"))
    /\ xenv.faults \cap {"sign_in", "projects_get", "datasources_get"} = {}

\* C17: a check_dataset call on a project the server has answers with a
\* success result; the result has exists = true, with the id and project id
\* of a matching datasource, exactly when some datasource of the server has
\* the queried name and the resolved project's id, and otherwise has
\* exists = false and the queried name.
C17_CheckDataset ==
    CheckRun =>
        \A p \in 1..Len(xenv.projects) :
            xenv.projects[p].name = CheckedProject =>
                /\ XText.status = "success"
                /\ XText.result.exists <=>
                      Matching(Get(xargs, "dataset_name"), xenv.projects[p].id) # {}
                /\ XText.result.name = Get(xargs, "dataset_name")
                /\ XText.result.exists =>
                      /\ XText.result.project_id = xenv.projects[p].id
                      /\ \E i \in Matching(Get(xargs, "dataset_name"),
                                            xenv.projects[p].id) :
                            XText.result.id = xenv.datasources[i].id

C17_Witness ==
    /\ CheckRun
    /\ Get(xargs, "dataset_name") = "costs"
    /\ "tableau_project" \notin DOMAIN xargs
    /\ XText.status = "success"
    /\ ~XText.result.exists
    /\ XText.result.name = "costs"

-----------------------------------------------------------------------------
\* Claims about the end of a chat run, checked under Spec.

\* C19: when the latest LLM response carries no tool calls, the next step
\* of chat returns that response's text as the final message, with the
\* conversation left as it is (nothing appended, no tool executed) and no
\* further LLM invocation.
C19_NoToolCallsIsDone ==
    [][(pc = "loop" /\ ToolCallsOf(response) = <<>>) =>
          /\ pc' = "done"
          /\ result'.message = response.message.content
          /\ messages' = messages
          /\ llmCalls' = llmCalls
          /\ response' = response]_vars

C19_Witness ==
    /\ pc = "done" /\ ToolCallsOf(response) = <<>>
    /\ Rounds = 1 /\ maxIter = 1
    /\ result.message = <<"reply ", "2">>
    /\ messages[Len(messages)].role = "tool"

-----------------------------------------------------------------------------
\* Claims about concurrently processed requests, checked under ConcSpec.

\* the tool-execution rounds run r entered
RoundsOf(r) ==
    Cardinality({i \in 1..Len(runs[r].own) : IsToolCallMsg(runs[r].own[i])})

\* C18: in every interleaving of two POST /api/chat requests, the
\* conversation of each run is its own initial messages followed by the
\* assistant and tool messages that run itself produced, its iteration
\* counter counts the passes of its own loop (its own rounds, plus the pass
\* that ended it), a step of one run leaves the other run as it is, and the
\* tool list of each run stays the registry's.
C18_RunsIsolated ==
    /\ [](\A r \in DOMAIN runs :
            /\ Len(runs[r].messages) = Len(runs[r].initial) + Len(runs[r].own)
            /\ \A i \in 1..Len(runs[r].messages) :
                  runs[r].messages[i].role = (runs[r].initial \o runs[r].own)[i].role
            /\ runs[r].messages = runs[r].initial \o runs[r].own
            /\ runs[r].iteration = runs[r].passes
            /\ runs[r].iteration \in {RoundsOf(r), RoundsOf(r) + 1}
            /\ runs[r].tools = _convert_mcp_tools_to_ollama_format(mcp_tools))
    /\ [][\A r, q \in DOMAIN runs :
            (r # q /\ runs'[r] # runs[r]) => runs'[q] = runs[q]]_vars

C18_Witness ==
    /\ runs # <<>>
    /\ runs[1].initial # runs[2].initial
    /\ runs[1].pc = "tools" /\ runs[1].callIdx = 2
    /\ runs[2].pc = "llm_next" /\ RoundsOf(2) = 1 /\ Len(runs[2].own) = 3
    /\ runs[2].own[2].content.status = "error"

-----------------------------------------------------------------------------
\* Claims about the server, checked under ServerSpec.

\* request r is a chat suspended in an LLM invocation or a collaborator call
Suspended(r) == server.reqs[r].kind = "chat" /\ server.reqs[r].at \in {"llm", "tool"}

\* C21 as claimed: while a chat request is suspended in an LLM invocation or
\* a collaborator call, another request that has arrived can be taken up
\* (and so be processed to completion).
C21_SlowRequestStallsNone ==
    \A r, q \in {1, 2} :
        (r # q /\ Suspended(r) /\ server.reqs[q].at = "pending") => ENABLED Accept(q)


-----------------------------------------------------------------------------

-----------------------------------------------------------------------------
\* The legacy executor (src/mcp_server.py over src/tableau_api.py): one
\* handle_tool_call, or one check_dataset on a signed-in server, in an
\* environment drawn in the initial state.

\* config.TABLEAU_PROJECT_NAME, the default of the environment variable
TABLEAU_PROJECT_NAME == "Sales"

\* str(v) inside an f-string
PyStr(v) == IF v = None THEN "None" ELSE v

\* a Python None where a dictionary may be returned: a dictionary carries
\* none |-> FALSE next to its keys
LegacyNone == [none |-> TRUE]

\* tableau_api._resolve_file_path: an absolute path as it is; for a relative
\* one the function reads DEFAULT_FILE_DIRECTORY, a name that config.py does
\* not define
legacy_resolve_file_path(p) ==
    IF is_absolute(p) THEN Ret(p, <<>>, <<>>)
    ELSE Raise(Exc("NameError", <<"name 'DEFAULT_FILE_DIRECTORY' is not defined">>),
               <<>>, <<>>)

\* tableau_api.connect_tableau: sign in and return the server, or re-raise
connect_tableau(env) ==
    IF Failing(env, "sign_in")
    THEN Raise(Exc("Exception", FaultMsg("sign_in")), <<"auth.sign_in">>, env.files)
    ELSE Ret("srv", <<"auth.sign_in">>, env.files)

\* tableau_api.get_project_id: the id of the first project with that name,
\* None when there is none
legacy_get_project_id(env, eff, fs, project_name) ==
    IF Failing(env, "projects_get")
    THEN Raise(Exc("Exception", FaultMsg("projects_get")),
               Append(eff, "projects.get"), fs)
    ELSE Ret(ProjectIdAt(env, FirstIndex(env.projects,
                 LAMBDA p : p.name = project_name)),
             Append(eff, "projects.get"), fs)

LegacyProjectNotFound(project_name) ==
    Exc("Exception",
        <<"Project '", PyStr(project_name), "' not found on Tableau Server.">>)

\* tableau_api.upload_dataset, lines 61-80: with the project lookup done;
\* publishing a file that does not exist fails in the Tableau client
LegacyPublish(env, fp, project_name, pid) ==
    IF pid.raised THEN pid
    ELSE IF pid.value = None
    THEN Raise(LegacyProjectNotFound(project_name), pid.effects, pid.files)
    ELSE IF Failing(env, "publish")
    THEN Raise(Exc("Exception", FaultMsg("publish")),
               Append(pid.effects, "datasources.publish"), pid.files)
    ELSE IF ~Exists(pid.files, fp)
    THEN Raise(Exc("OSError", <<"File path does not lead to an existing file.">>),
               Append(pid.effects, "datasources.publish"), pid.files)
    ELSE Ret([name |-> fp.stem, id |-> "d-new", project_id |-> pid.value,
              file_path |-> PathStr(fp)],
             Append(pid.effects, "datasources.publish"), pid.files)

\* tableau_api.upload_dataset: the path is resolved first, inside the try
legacy_upload_dataset(env, eff, fs, file_path, project_name) ==
    IF legacy_resolve_file_path(file_path).raised
    THEN Raise(legacy_resolve_file_path(file_path).exc, eff, fs)
    ELSE LegacyPublish(env, legacy_resolve_file_path(file_path).value, project_name,
                       legacy_get_project_id(env, eff, fs, project_name))

\* tableau_api.check_dataset, lines 97-108: the loop returns in its first
\* pass, with a match or without one, and falls through on an empty list
LegacyCheckResult(env, dataset_name, project_name, project_id) ==
    IF env.datasources = <<>> THEN LegacyNone
    ELSE IF /\ env.datasources[1].name = dataset_name
            /\ env.datasources[1].project_id = project_id
    THEN [none |-> FALSE, exists |-> TRUE, name |-> env.datasources[1].name,
          id |-> env.datasources[1].id,
          project_id |-> env.datasources[1].project_id, project |-> Absent]
    ELSE [none |-> FALSE, exists |-> FALSE, name |-> dataset_name,
          id |-> Absent, project_id |-> Absent, project |-> project_name]

\* tableau_api.check_dataset, lines 92-108: with the project lookup done
LegacyCheckIn(env, dataset_name, project_name, pid) ==
    IF pid.raised THEN pid
    ELSE IF pid.value = None
    THEN Raise(LegacyProjectNotFound(project_name), pid.effects, pid.files)
    ELSE IF Failing(env, "datasources_get")
    THEN Raise(Exc("Exception", FaultMsg("datasources_get")),
               Append(pid.effects, "datasources.get"), pid.files)
    ELSE Ret(LegacyCheckResult(env, dataset_name, project_name, pid.value),
             Append(pid.effects, "datasources.get"), pid.files)

\* tableau_api.check_dataset
legacy_check_dataset(env, eff, fs, dataset_name, project_name) ==
    LegacyCheckIn(env, dataset_name, project_name,
                  legacy_get_project_id(env, eff, fs, project_name))

\* tableau_api._find_excel_file, line 162
legacy_excel_extensions == <<dot_xlsx, dot_xls, dot_xlsm, dot_xlsb>>

\* tableau_api._find_excel_file, lines 156-174: the resolved path when it
\* exists, else the candidate with the extension at index i, else (i = 0)
\* the resolved path itself
ExcelCandidate(fs, resolved, i) ==
    IF Exists(fs, resolved) \/ i = 0 THEN resolved
    ELSE MkPath(resolved.dir, resolved.stem, legacy_excel_extensions[i])

\* tableau_api._find_excel_file, with the path resolved
LegacyFindExcel(fs, resolved) ==
    IF resolved.raised THEN resolved
    ELSE Ret(ExcelCandidate(fs, resolved.value,
                 FirstIndex(legacy_excel_extensions,
                     LAMBDA e : Exists(fs, MkPath(resolved.value.dir,
                                                  resolved.value.stem, e)))),
             <<>>, fs)

\* tableau_api._find_excel_file
legacy_find_excel_file(fs, p) ==
    LegacyFindExcel(fs, legacy_resolve_file_path(p))

\* tableau_api.convert_excel_to_hyper, lines 131-145: with both paths at
\* hand; hyper is where the Hyper file goes
LegacyConvert(env, eff, fs, excel, hyper) ==
    IF hyper.raised THEN Raise(hyper.exc, eff, fs)
    ELSE IF Failing(env, "convert")
    THEN Raise(Exc("Exception", FaultMsg("convert")), Append(eff, "pd.read_excel"), fs)
    ELSE Ret([input_file |-> PathStr(excel), output_file |-> PathStr(hyper.value),
              rows |-> "rows", columns |-> "columns", column_names |-> "column_names"],
             eff \o <<"pd.read_excel", "pantab.frame_to_hyper">>,
             WriteFile(fs, hyper.value))

\* tableau_api.convert_excel_to_hyper, lines 119-129: with the Excel file
\* looked for; the Hyper file goes next to it unless a path is given
LegacyConvertFound(env, eff, fs, found, hyper_file_path) ==
    IF found.raised THEN Raise(found.exc, eff, fs)
    ELSE IF ~Exists(fs, found.value)
    THEN Raise(Exc("FileNotFoundError",
             <<"Excel file not found: ">> \o PathStr(found.value)), eff, fs)
    ELSE LegacyConvert(env, eff, fs, found.value,
             IF ~Truthy(hyper_file_path)
             THEN Ret(MkPath(found.value.dir, found.value.stem, dot_hyper), <<>>, fs)
             ELSE legacy_resolve_file_path(Path(hyper_file_path)))

\* tableau_api.convert_excel_to_hyper
legacy_convert_excel_to_hyper(env, eff, fs, excel_file_path, hyper_file_path) ==
    LegacyConvertFound(env, eff, fs,
        legacy_find_excel_file(fs, Path(excel_file_path)), hyper_file_path)

\* mcp_server._handle_upload_dataset
legacy_handle_upload_dataset(env, srv, arguments) ==
    IF ~Truthy(Get(arguments, "file_path"))
    THEN Raise(Exc("ValueError", <<"Missing required parameter: file_path">>),
               srv.effects, srv.files)
    ELSE legacy_upload_dataset(env, srv.effects, srv.files,
             Path(Get(arguments, "file_path")), Get(arguments, "tableau_project"))

\* mcp_server._handle_check_dataset: the project passed is the argument, None
\* when it is omitted
legacy_handle_check_dataset(env, srv, arguments) ==
    IF ~Truthy(Get(arguments, "dataset_name"))
    THEN Raise(Exc("ValueError", <<"Missing required parameter: dataset_name">>),
               srv.effects, srv.files)
    ELSE legacy_check_dataset(env, srv.effects, srv.files,
             Get(arguments, "dataset_name"), Get(arguments, "tableau_project"))

\* mcp_server._handle_convert_excel_to_hyper
legacy_handle_convert_excel_to_hyper(env, srv, arguments) ==
    IF ~Truthy(Get(arguments, "excel_file_path"))
    THEN Raise(Exc("ValueError", <<"Missing required parameter: excel_file_path">>),
               srv.effects, srv.files)
    ELSE legacy_convert_excel_to_hyper(env, srv.effects, srv.files,
             Get(arguments, "excel_file_path"), Get(arguments, "hyper_file_path"))

\* mcp_server.handle_tool_call, lines 77-86: with connect_tableau done
LegacyDispatch(name, arguments, env, srv) ==
    IF srv.raised THEN srv
    ELSE IF name = "upload_dataset"
    THEN legacy_handle_upload_dataset(env, srv, arguments)
    ELSE IF name = "check_dataset"
    THEN legacy_handle_check_dataset(env, srv, arguments)
    ELSE IF name = "convert_excel_to_hyper"
    THEN legacy_handle_convert_excel_to_hyper(env, srv, arguments)
    ELSE Raise(Exc("ValueError", <<"Unknown tool: ", name>>),
               srv.effects, srv.files)

\* mcp_server.handle_tool_call, lines 88-105: the success envelope, or the
\* error envelope for any exception
LegacyEnvelope(name, r) ==
    IF r.raised
    THEN Ret(TextContent([status |-> "error", message |-> r.exc.msg]),
             r.effects, r.files)
    ELSE Ret(TextContent([status |-> "success", action |-> name, result |-> r.value]),
             r.effects, r.files)

\* mcp_server.handle_tool_call: sign in, then route by name
legacy_handle_tool_call(name, arguments, env) ==
    LegacyEnvelope(name, LegacyDispatch(name, arguments, env, connect_tableau(env)))

\* how many projects and datasources a drawn server holds at most
MaxServerItems == 2

DatasourceUniverse ==
    { [name |-> "sales", id |-> "d0", project_id |-> "p0"],
      [name |-> "sales", id |-> "d1", project_id |-> "p1"],
      [name |-> "costs", id |-> "d2", project_id |-> "p1"] }

ProjectUniverse ==
    { [name |-> "Default", id |-> "p0"], [name |-> "Sales", id |-> "p1"] }

\* the lists of at most MaxServerItems distinct elements of universe
ListsOver(universe) ==
    UNION { { l \in [1..n -> universe] :
                \A i, j \in 1..n : i # j => l[i] # l[j] } : n \in 0..MaxServerItems }

\* servers with drawn project and datasource lists
ServersOf(faults) ==
    { [files |-> <<>>, dirs |-> {settings.default_file_directory}, faults |-> f,
       projects |-> ps, datasources |-> ds] :
      f \in {g \in FaultSets : g \subseteq faults},
      ps \in ListsOver(ProjectUniverse), ds \in ListsOver(DatasourceUniverse) }

LegacyUploadInputs ==
    { [pc |-> "ready", name |-> "upload_dataset",
       args |-> Args2("file_path", fp, "tableau_project", tp), env |-> e] :
      fp \in {Absent, "sales.hyper", "/tmp/sales.xlsx"}, tp \in ProjectArgs,
      e \in Envs(Listings) }
LegacyCheckInputs ==
    { [pc |-> "ready", name |-> "check_dataset",
       args |-> Args2("dataset_name", dn, "tableau_project", tp), env |-> e] :
      dn \in DatasetArgs, tp \in ProjectArgs, e \in EnvsOf(<<>>) }
LegacyOtherInputs ==
    { [pc |-> "ready", name |-> n,
       args |-> Args2("excel_file_path", fp, "hyper_file_path", hp), env |-> e] :
      n \in UnknownNames \cup {"list_datasets"}, fp \in {Absent, "sales.xlsx", "/tmp/sales.xlsx"},
      hp \in {Absent, "sales.hyper"}, e \in Envs(Listings) }
LegacyDirectInputs ==
    { [pc |-> "signed_in", name |-> "tableau_api.check_dataset",
       args |-> Args2("dataset_name", dn, "project_name", pn), env |-> e] :
      dn \in {"sales", "costs", "budget"}, pn \in {"Default", "Sales", "Marketing"},
      e \in ServersOf({"projects_get", "datasources_get"}) }

\* the legacy server is about to be invoked as inp says
LegacyDrawn(inp) ==
    xpc = inp.pc /\ xname = inp.name /\ xargs = inp.args /\ xenv = inp.env

InitLegacy ==
    /\ ChatOff
    /\ ApiOff
    /\ ConcOff
    /\ \/ \E inp \in LegacyUploadInputs : LegacyDrawn(inp)
       \/ \E inp \in LegacyCheckInputs : LegacyDrawn(inp)
       \/ \E inp \in LegacyOtherInputs : LegacyDrawn(inp)
       \/ \E inp \in LegacyDirectInputs : LegacyDrawn(inp)
    /\ xout = NoOut

\* mcp_server.handle_tool_call(name, arguments) in the environment drawn
LegacyExecuteTool ==
    /\ xpc = "ready"
    /\ xout' = legacy_handle_tool_call(xname, xargs, xenv)
    /\ xpc' = "done"
    /\ UNCHANGED <<xname, xargs, xenv>>
    /\ UNCHANGED <<chatVars, apiVars, concVars>>

\* tableau_api.check_dataset(server, dataset_name, project_name) on a server
\* that is signed in
LegacyCheckDataset ==
    /\ xpc = "signed_in"
    /\ xout' = legacy_check_dataset(xenv, <<>>, xenv.files,
                   xargs["dataset_name"], xargs["project_name"])
    /\ xpc' = "checked"
    /\ UNCHANGED <<xname, xargs, xenv>>
    /\ UNCHANGED <<chatVars, apiVars, concVars>>

NextLegacy == LegacyExecuteTool \/ LegacyCheckDataset

LegacySpec == InitLegacy /\ [][NextLegacy]_vars

\* Claims about the resolution of the uploaded file, checked under ExecSpec.

\* an upload_dataset execution whose file_path has no extension
ExtensionlessRun ==
    /\ xpc = "done" /\ xname = "upload_dataset"
    /\ Truthy(Get(xargs, "file_path"))
    /\ Path(Get(xargs, "file_path")).ext = <<>>

\* the path searched for: the file_path in the default directory
Searched == _resolve_file_path(Path(Get(xargs, "file_path")))

\* the position in possible_extensions of the first extension with which
\* the searched file exists, 0 when there is none
FirstExisting ==
    FirstIndex(possible_extensions,
        LAMBDA e : Exists(xenv.files, MkPath(Searched.dir, Searched.stem, e)))

\* the outcome of the upload had the file been resolved to path
OutcomeFor(path) ==
    Envelope(xname,
        UploadResolved(xenv, Get(xargs, "tableau_project"),
            Ret([path |-> path, file_extension |-> Lower(path.ext)],
                <<>>, xenv.files)))

\* the executor answered as if the file had been resolved to path
AnsweredAsFor(path) ==
    /\ xout.effects = OutcomeFor(path).effects
    /\ XText.status = OutcomeFor(path).value[1].text.status
    /\ XText.status = "error" =>
          XText.message = OutcomeFor(path).value[1].text.message

\* C22 as claimed: an upload_dataset file_path without extension resolves to
\* the first existing file among <stem>.hyper, .xlsx, .xls, .csv, .xlsm,
\* .xlsb of the default directory; when there is none, to a file found by
\* globbing the directory by stem; and when that fails too the answer is a
\* not-found error that lists the files of the directory.
C22_ExtensionlessResolution ==
    ExtensionlessRun =>
        IF FirstExisting # 0
        THEN AnsweredAsFor(MkPath(Searched.dir, Searched.stem,
                                  possible_extensions[FirstExisting]))
        ELSE IF Glob(xenv.files, Searched.dir, Searched.stem) # <<>>
        THEN AnsweredAsFor(Glob(xenv.files, Searched.dir, Searched.stem)[1])
        ELSE /\ XText.status = "error"
             /\ xout.effects = <<>>
             /\ \A k \in 1..Len(GlobAll(xenv.files, Searched.dir)) :
                   HasInfix(XText.message, GlobAll(xenv.files, Searched.dir)[k].ext)


-----------------------------------------------------------------------------
\* Claims about the legacy executor, checked under LegacySpec.

\* a finished legacy handle_tool_call
LegacyRun == xpc = "done"

\* C23 as claimed, for the legacy executor: a check_dataset call that omits
\* tableau_project searches the configured default project
\* TABLEAU_PROJECT_NAME, so with every collaborator working it answers with
\* the outcome of the search in that project.
C23_OmittedProjectIsDefault ==
    ( /\ LegacyRun /\ xname = "check_dataset"
      /\ Truthy(Get(xargs, "dataset_name"))
      /\ "tableau_project" \notin DOMAIN xargs
      /\ xenv.faults = {} ) =>
        /\ XText.status = "success"
        /\ XText.result =
              legacy_check_dataset(xenv, <<>>, xenv.files,
                  Get(xargs, "dataset_name"), TABLEAU_PROJECT_NAME).value

\* C24 as claimed: every session the legacy handle_tool_call signs in is
\* signed out before it returns, whatever the tool name and the outcome.
C24_LegacySessionReleased ==
    (LegacyRun /\ ~Failing(xenv, "sign_in")) =>
        /\ Count("auth.sign_in") = 1
        /\ Count("auth.sign_out") = 1
        /\ xout.effects[Len(xout.effects)] = "auth.sign_out"


\* a key that a dictionary lacks reads as None
OrNone(v) == IF v = Absent THEN None ELSE v

\* what check_dataset of src/tableau/datasources.py returns on the server
\* and arguments of the legacy check_dataset call
NewCheck ==
    check_dataset(xenv, <<>>, xenv.files,
                  xargs["dataset_name"], xargs["project_name"])

\* C28 as claimed: on every project list, datasource list, dataset name and
\* explicitly given project name, the legacy check_dataset and check_dataset
\* of src/tableau/datasources.py both fail, or both return, with the same
\* exists flag, name, id and project id.
C28_CheckDatasetAgree ==
    xpc = "checked" =>
        /\ xout.raised = NewCheck.raised
        /\ ~xout.raised =>
              /\ ~xout.value.none
              /\ xout.value.exists = NewCheck.value.exists
              /\ xout.value.name = NewCheck.value.name
              /\ OrNone(xout.value.id) = NewCheck.value.id
              /\ OrNone(xout.value.project_id) = NewCheck.value.project_id


-----------------------------------------------------------------------------
\* Claims about what the chat loop hands to the executor, checked under Spec.

RECURSIVE AppendedCalls(_)
\* the tool calls of the assistant messages of a conversation, in order
AppendedCalls(msgs) ==
    IF msgs = <<>> THEN <<>>
    ELSE (IF IsToolCallMsg(Head(msgs)) THEN Head(msgs).tool_calls ELSE <<>>)
         \o AppendedCalls(Tail(msgs))

\* C25: the tool calls passed to the executor are, in order and without
\* repetition, the tool calls of the assistant messages appended to the
\* conversation: all of them whenever no round is under way, so that the
\* number of executor invocations equals the number of those tool calls, and
\* inside a round those of the earlier rounds followed by the calls of the
\* current round that precede the one in turn.
C25_EachCallExecutedOnce ==
    pc # "off" =>
        /\ Len(executed) <= Len(AppendedCalls(messages))
        /\ executed = SubSeq(AppendedCalls(messages), 1, Len(executed))
        /\ pc \in {"llm_first", "loop", "llm_next", "done"} =>
              Len(executed) = Len(AppendedCalls(messages))
        /\ pc = "tools" =>
              Len(executed) = Len(AppendedCalls(messages))
                              - Len(response.message.tool_calls) + callIdx - 1

C25_Witness ==
    /\ pc = "done"
    /\ Rounds = 2
    /\ Len(executed) = 4
    /\ executed = AppendedCalls(messages)
    /\ executed[1] # executed[2]


-----------------------------------------------------------------------------
\* Claims about the order of an upload, checked under ExecSpec.

\* a finished upload_dataset execution
UploadRun == xpc = "done" /\ xname = "upload_dataset"

\* the upload stops before the session: no file_path, no file resolved, an
\* extension that is not supported, or a conversion that fails
StopsBeforeSession ==
    \/ ~Truthy(Get(xargs, "file_path"))
    \/ Resolved.raised
    \/ Resolved.value.file_extension \notin ExcelExtensions \cup {dot_csv, dot_hyper}
    \/ /\ Resolved.value.file_extension \in ExcelExtensions \cup {dot_csv}
       /\ Failing(xenv, "convert")

\* the position of the sign-in among the collaborator operations
SignInAt == CHOOSE i \in 1..Len(xout.effects) : xout.effects[i] = "auth.sign_in"

\* C26: in an upload_dataset execution the Tableau sign-in comes only after
\* the file was resolved, its extension accepted and any conversion done: a
\* conversion is invoked before the sign-in and never after it, and when the
\* resolution, the extension check or the conversion fails no session is
\* opened and nothing is published.
C26_SignInAfterPreparation ==
    UploadRun =>
        /\ StopsBeforeSession =>
              /\ XText.status = "error"
              /\ ~Invoked("auth.sign_in")
              /\ ~Invoked("datasources.publish")
        /\ Invoked("auth.sign_in") =>
              /\ ~StopsBeforeSession
              /\ \A i \in 1..Len(xout.effects) :
                    xout.effects[i] \in Conversions => i < SignInAt
              /\ Resolved.value.file_extension \in ExcelExtensions \cup {dot_csv} =>
                    \E i \in 1..(SignInAt - 1) : xout.effects[i] \in Conversions
              /\ Exists(xout.files,
                     MkPath(Resolved.value.path.dir, Resolved.value.path.stem, dot_hyper))

C26_Witness ==
    /\ UploadRun
    /\ Get(xargs, "file_path") = "sales.xlsx"
    /\ ~Resolved.raised
    /\ Resolved.value.file_extension = dot_xlsx
    /\ xenv.faults = {"convert"}
    /\ XText.status = "error"
    /\ xout.effects = <<"convert_excel_to_hyper">>


-----------------------------------------------------------------------------
\* Two upload_dataset executions of src/mcp/handlers.py running at once on
\* one file system (two server processes, or the MCP server next to the web
\* API), each on a source file with the same directory and stem. Both
\* conversions write <directory>/<stem>.hyper; uploads.hyper tells whose
\* data that file holds.

UploadSources == {".xlsx", ".csv"}

\* an execution with its file resolved, before its conversion
NewUpload(ext) == [source |-> ext, at |-> "resolved", published |-> "nothing"]

\* the data execution e converts
DataOf(e) == IF e = 1 THEN "data of 1" ELSE "data of 2"

InitUploads ==
    /\ ChatOff
    /\ ExecOff
    /\ ApiOff
    /\ runs = <<>> /\ server = NotUsed /\ tclient = NotUsed /\ sessions = NotUsed
    /\ \E s1, s2 \in UploadSources :
          uploads = [hyper |-> "absent", execs |-> <<NewUpload(s1), NewUpload(s2)>>]

\* execution e moves on to position at
Moved(e, at) == [uploads EXCEPT !.execs[e].at = at]

\* converters, lines 114 and 174: pd.read_excel or pd.read_csv of the source
ReadSource(e) ==
    /\ uploads.execs[e].at = "resolved"
    /\ uploads' = Moved(e, "read")
    /\ UNCHANGED <<chatVars, execVars, apiVars, runs, server, tclient, sessions>>

\* converters, lines 103-120 and 163-180: pantab.frame_to_hyper writes the
\* frame to parent / f"{stem}.hyper"
WriteHyper(e) ==
    /\ uploads.execs[e].at = "read"
    /\ uploads' = [Moved(e, "converted") EXCEPT !.hyper = DataOf(e)]
    /\ UNCHANGED <<chatVars, execVars, apiVars, runs, server, tclient, sessions>>

\* handlers, line 194: entering the with block signs in
EnterSession(e) ==
    /\ uploads.execs[e].at = "converted"
    /\ uploads' = Moved(e, "signed_in")
    /\ UNCHANGED <<chatVars, execVars, apiVars, runs, server, tclient, sessions>>

\* datasources, lines 94-105: upload_dataset finds the Hyper file in place
\* and looks the project up (projects.get)
LookUpProject(e) ==
    /\ uploads.execs[e].at = "signed_in"
    /\ uploads' = Moved(e, "looked_up")
    /\ UNCHANGED <<chatVars, execVars, apiVars, runs, server, tclient, sessions>>

\* datasources, lines 110-114: datasources.publish sends what the Hyper file
\* holds now
PublishHyper(e) ==
    /\ uploads.execs[e].at = "looked_up"
    /\ uploads' = [Moved(e, "published") EXCEPT !.execs[e].published = uploads.hyper]
    /\ UNCHANGED <<chatVars, execVars, apiVars, runs, server, tclient, sessions>>

\* handlers, lines 199-208: leaving the with block signs out, and the
\* handler returns
LeaveSession(e) ==
    /\ uploads.execs[e].at = "published"
    /\ uploads' = Moved(e, "returned")
    /\ UNCHANGED <<chatVars, execVars, apiVars, runs, server, tclient, sessions>>

NextUploads ==
    \E e \in {1, 2} :
        ReadSource(e) \/ WriteHyper(e) \/ EnterSession(e) \/ LookUpProject(e)
        \/ PublishHyper(e) \/ LeaveSession(e)

UploadsSpec == InitUploads /\ [][NextUploads]_vars

\* C27 as claimed: of two upload_dataset executions running at once on
\* source files with the same directory and stem, each publishes the Hyper
\* file its own conversion produced, never the data the other's conversion
\* wrote.
C27_PublishesOwnConversion ==
    \A e \in {1, 2} :
        uploads.execs[e].published # "nothing" =>
            uploads.execs[e].published = DataOf(e)


-----------------------------------------------------------------------------
\* Claims about malformed tool calls, checked under Spec.

\* C29 as claimed: a tool call whose record lacks a function name or an
\* arguments mapping is answered with an error tool message, and the loop
\* continues with the remaining calls of the round or with the next LLM
\* invocation; chat does not raise.
C29_MalformedCallIsFedBack ==
    [][(pc = "tools" /\ ~WellFormed(response.message.tool_calls[callIdx])) =>
          /\ pc' = IF callIdx < Len(response.message.tool_calls)
                   THEN "tools" ELSE "llm_next"
          /\ callIdx' = callIdx + 1
          /\ Len(messages') = Len(messages) + 1
          /\ messages'[Len(messages')].role = "tool"
          /\ messages'[Len(messages')].content.status = "error"]_vars


-----------------------------------------------------------------------------
\* A TableauClient (src/tableau/client.py) under a sequence of connect,
\* disconnect, server and with-block uses. tclient.c is the object with the
\* sign-outs it performed, tclient.live whether a sign-in has succeeded and
\* no disconnect has been called since, tclient.last the latest use and its
\* outcome.

\* how many uses a client is put to
MaxClientOps == 4

\* TableauClient.__init__, line 40
NewClientObject == [_server |-> None, sign_ins |-> 0, sign_outs |-> 0]

\* the outcome of a use: the client afterwards, and the exception raised
\* ("none" when the use returned)
Used(c, exc) == [c |-> c, exc |-> exc]

\* TableauClient.connect: _server is set once the sign-in succeeded
TableauClient_connect(c, sign_in_ok) ==
    IF sign_in_ok
    THEN Used([c EXCEPT !._server = "server", !.sign_ins = c.sign_ins + 1], "none")
    ELSE Used(c, "sign_in")

\* disconnect that keeps the server when the sign-out raises
TableauClient_disconnect_no_finally(c, sign_out_ok) ==
    IF c._server # None
    THEN Used([c EXCEPT !._server = IF sign_out_ok THEN None ELSE c._server,
                        !.sign_outs = c.sign_outs + 1], "none")
    ELSE Used(c, "none")

\* TableauClient.disconnect: with a server, sign out, swallow a failure of
\* it, and forget the server; without one, nothing
TableauClient_disconnect(c, sign_out_ok) ==
    IF c._server # None
    THEN Used([c EXCEPT !._server = None, !.sign_outs = c.sign_outs + 1], "none")
    ELSE Used(c, "none")

\* TableauClient.server: the server, or RuntimeError without one
TableauClient_server(c) ==
    IF c._server = None THEN Used(c, "RuntimeError") ELSE Used(c, "none")

\* __exit__ after the body: disconnect, and the body's exception is not
\* suppressed (the method returns None)
TableauClient_exit(c, body_ok, sign_out_ok) ==
    Used(TableauClient_disconnect(c, sign_out_ok).c,
         IF body_ok THEN TableauClient_disconnect(c, sign_out_ok).exc ELSE "body")

\* with TableauClient() as client: body. __enter__ connects; when it raises
\* neither the body nor __exit__ runs (entered is the outcome of connect)
TableauClient_with(entered, body_ok, sign_out_ok) ==
    IF entered.exc # "none" THEN entered
    ELSE TableauClient_exit(entered.c, body_ok, sign_out_ok)

\* the latest use: what was called, what the collaborator and the body did,
\* and the exception that came out
LastUse(op, sign_in, body, sign_out, exc) ==
    [op |-> op, sign_in |-> sign_in, body |-> body, sign_out |-> sign_out, exc |-> exc]

Did(ok) == IF ok THEN "ok" ELSE "raised"

InitClient ==
    /\ ChatOff
    /\ ExecOff
    /\ ApiOff
    /\ runs = <<>> /\ server = NotUsed /\ uploads = NotUsed /\ sessions = NotUsed
    /\ tclient = [c |-> NewClientObject, live |-> FALSE, steps |-> 0,
                  last |-> LastUse("init", "-", "-", "-", "none")]

\* client.connect()
ClientConnect ==
    /\ tclient.steps < MaxClientOps
    /\ \E sign_in_ok \in BOOLEAN :
          tclient' = [c |-> TableauClient_connect(tclient.c, sign_in_ok).c,
                      live |-> sign_in_ok \/ tclient.live,
                      steps |-> tclient.steps + 1,
                      last |-> LastUse("connect", Did(sign_in_ok), "-", "-",
                                  TableauClient_connect(tclient.c, sign_in_ok).exc)]
    /\ UNCHANGED <<chatVars, execVars, apiVars, runs, server, uploads, sessions>>

\* client.disconnect(); the sign-out, if it comes to one, works or raises
ClientDisconnect ==
    /\ tclient.steps < MaxClientOps
    /\ \E sign_out_ok \in BOOLEAN :
          tclient' = [c |-> TableauClient_disconnect(tclient.c, sign_out_ok).c,
                      live |-> FALSE,
                      steps |-> tclient.steps + 1,
                      last |-> LastUse("disconnect", "-", "-", Did(sign_out_ok),
                                  TableauClient_disconnect(tclient.c, sign_out_ok).exc)]
    /\ UNCHANGED <<chatVars, execVars, apiVars, runs, server, uploads, sessions>>

\* client.server
ClientServer ==
    /\ tclient.steps < MaxClientOps
    /\ tclient' = [tclient EXCEPT
                     !.steps = tclient.steps + 1,
                     !.last = LastUse("server", "-", "-", "-",
                                  TableauClient_server(tclient.c).exc)]
    /\ UNCHANGED <<chatVars, execVars, apiVars, runs, server, uploads, sessions>>

\* with client: body
ClientWith ==
    /\ tclient.steps < MaxClientOps
    /\ \E sign_in_ok, body_ok, sign_out_ok \in BOOLEAN :
          tclient' =
            [c |-> TableauClient_with(TableauClient_connect(tclient.c, sign_in_ok),
                                      body_ok, sign_out_ok).c,
             live |-> IF sign_in_ok THEN FALSE ELSE tclient.live,
             steps |-> tclient.steps + 1,
             last |-> LastUse("with", Did(sign_in_ok),
                         IF sign_in_ok THEN Did(body_ok) ELSE "-",
                         IF sign_in_ok THEN Did(sign_out_ok) ELSE "-",
                         TableauClient_with(TableauClient_connect(tclient.c, sign_in_ok),
                                            body_ok, sign_out_ok).exc)]
    /\ UNCHANGED <<chatVars, execVars, apiVars, runs, server, uploads, sessions>>

NextClient == ClientConnect \/ ClientDisconnect \/ ClientServer \/ ClientWith

ClientSpec == InitClient /\ [][NextClient]_vars

\* C30: for a TableauClient under any sequence of uses, the server accessor
\* raises exactly when no sign-in has succeeded or a disconnect has followed
\* the last one; after a disconnect the client holds no server, also when
\* the sign-out raised, and disconnect itself does not raise; a disconnect
\* with no successful sign-in before it performs no sign-out; and a
\* with-block whose sign-in succeeded raises exactly when its body raised,
\* with the body's exception, whether or not the sign-out on leaving raised.
C30_ClientLifecycle ==
    /\ [](/\ (tclient.c._server # None) = tclient.live
          /\ tclient.last.op = "server" =>
                (tclient.last.exc = "RuntimeError") = ~tclient.live
          /\ tclient.last.op = "disconnect" =>
                tclient.c._server = None /\ tclient.last.exc = "none"
          /\ (tclient.last.op = "with" /\ tclient.last.sign_in = "ok") =>
                /\ tclient.c._server = None
                /\ tclient.last.body = "ok" => tclient.last.exc = "none"
                /\ tclient.last.body = "raised" => tclient.last.exc = "body")
    /\ [][(tclient'.steps > tclient.steps /\ tclient'.last.op = "disconnect") =>
             tclient'.c.sign_outs =
                 tclient.c.sign_outs + (IF tclient.live THEN 1 ELSE 0)]_vars

C30_Witness ==
    /\ tclient.steps = 3
    /\ tclient.last = LastUse("with", "ok", "raised", "raised", "body")
    /\ tclient.c = [_server |-> None, sign_ins |-> 2, sign_outs |-> 2]

-----------------------------------------------------------------------------
\* Sequences of executor invocations against one Tableau server
\* (src/mcp/handlers.py:192-244, src/tableau/client.py:42-113). Every handler
\* builds its own TableauClient, whose sign-in opens a session on the server;
\* the session is closed by a sign-out that does not raise. sessions.open are
\* the sessions signed in on the server, sessions.last the session of the
\* latest invocation (0 when it opened none), sessions.leaks the number of
\* invocations whose sign-out raised.

MaxSeqCalls == 3

\* the outcome out of an invocation in env opened a session:
\* server.auth.sign_in returned (client.py:66)
SignsIn(out, env) == Contains(out.effects, "auth.sign_in") /\ ~Failing(env, "sign_in")

\* self._server.auth.sign_out() was called (client.py:81)
TriesSignOut(out) == Contains(out.effects, "auth.sign_out")

\* it returned: the server closed the session
SignsOut(out, env) == TriesSignOut(out) /\ ~Failing(env, "sign_out")

\* the server's sessions after an invocation with outcome out: a sign-in
\* opens a new session, which stays open unless the sign-out returned
SessionsAfter(s, out, env) ==
    [used |-> TRUE,
     calls |-> s.calls + 1,
     created |-> s.created + (IF SignsIn(out, env) THEN 1 ELSE 0),
     open |-> IF SignsIn(out, env) /\ ~SignsOut(out, env)
              THEN s.open \cup {s.created + 1} ELSE s.open,
     last |-> IF SignsIn(out, env) THEN s.created + 1 ELSE 0,
     leaks |-> s.leaks + (IF TriesSignOut(out) /\ Failing(env, "sign_out")
                          THEN 1 ELSE 0)]

\* the invocations that follow the first of a sequence: each tool on a
\* directory that holds sales.hyper, and a name that is no tool, with every
\* fault set
SessionInputs ==
    { [name |-> c.name, args |-> c.args, env |-> e] :
      c \in { [name |-> "upload_dataset",
               args |-> Args2("file_path", "sales.hyper", "tableau_project", "Sales")],
              [name |-> "check_dataset",
               args |-> Args2("dataset_name", "sales", "tableau_project", "Sales")],
              [name |-> "list_datasets",
               args |-> Args2("tableau_project", "Sales", "unused", Absent)],
              [name |-> "delete_dataset",
               args |-> Args2("dataset_name", "sales", "unused", Absent)] },
      e \in EnvsOf(<<MkPath(settings.default_file_directory, stem_sales, dot_hyper)>>) }

InitSessions ==
    /\ ChatOff
    /\ ApiOff
    /\ runs = <<>> /\ server = NotUsed /\ uploads = NotUsed /\ tclient = NotUsed
    /\ sessions = [used |-> TRUE, calls |-> 0, created |-> 0, open |-> {},
                   last |-> 0, leaks |-> 0]
    /\ xpc = "ready"
    /\ \/ \E inp \in UploadInputs : ExecDrawn(inp)
       \/ \E inp \in CheckInputs : ExecDrawn(inp)
       \/ \E inp \in ListInputs : ExecDrawn(inp)
       \/ \E inp \in UnknownInputs : ExecDrawn(inp)
    /\ xout = NoOut

\* handle_tool_call(name, arguments) against the server
SessionInvoke ==
    /\ xpc = "ready"
    /\ xout' = handle_tool_call(xname, xargs, xenv)
    /\ sessions' = SessionsAfter(sessions, xout', xenv)
    /\ xpc' = "done"
    /\ UNCHANGED <<xname, xargs, xenv>>
    /\ UNCHANGED <<chatVars, apiVars, runs, server, uploads, tclient>>

\* the next invocation of the sequence
SessionNext ==
    /\ xpc = "done"
    /\ sessions.calls < MaxSeqCalls
    /\ \E inp \in SessionInputs :
          xname' = inp.name /\ xargs' = inp.args /\ xenv' = inp.env
    /\ xout' = NoOut
    /\ xpc' = "ready"
    /\ UNCHANGED sessions
    /\ UNCHANGED <<chatVars, apiVars, runs, server, uploads, tclient>>

NextSessions == SessionInvoke \/ SessionNext

SessionSpec == InitSessions /\ [][NextSessions]_vars

\* the invocation just made signs in at most once; when it signed in, every
\* operation on a session comes after its own sign-in and the sign-out is
\* called once, as the last thing before handle_tool_call returns, whether
\* the handler succeeded or a collaborator raised; an invocation that did
\* not sign in touches no session
OwnSession ==
    /\ ~xout.raised
    /\ Count("auth.sign_in") <= 1
    /\ SignedIn =>
          /\ Count("auth.sign_out") = 1
          /\ xout.effects[Len(xout.effects)] = "auth.sign_out"
          /\ \A i \in 1..Len(xout.effects) :
                xout.effects[i] \in TableauOps \cup {"auth.sign_out"} =>
                    \E j \in 1..(i - 1) : xout.effects[j] = "auth.sign_in"
          /\ sessions.last = sessions.created
    /\ ~SignedIn =>
          /\ \A op \in TableauOps \cup {"auth.sign_out"} : ~Invoked(op)
          /\ sessions.last = 0

\* C14, as stated: every invocation that signs in uses a session of its own
\* and signs it out before handle_tool_call returns, on every exit path, and
\* after any sequence of invocations no session is signed in on the server.
C14_NoSessionRemains ==
    xpc = "done" => OwnSession /\ sessions.open = {}

\* C14, amended: every invocation that signs in uses a session of its own
\* and calls sign-out on it once before handle_tool_call returns, on every
\* exit path; its session stays signed in exactly when that sign-out call
\* raised, and after any sequence of invocations the sessions signed in on
\* the server are as many as the sign-outs that raised, none when none did.
C14_SessionScoped ==
    /\ Cardinality(sessions.open) = sessions.leaks
    /\ xpc = "done" =>
          /\ OwnSession
          /\ (sessions.last \in sessions.open) = (SignedIn /\ Failing(xenv, "sign_out"))
          /\ \A id \in sessions.open : id <= sessions.created

\* the third invocation fails in publishing and is signed out, while the
\* session of an earlier one, whose sign-out raised, is still signed in
C14_Witness ==
    /\ xpc = "done" /\ sessions.calls = 3
    /\ xname = "upload_dataset" /\ xenv.faults = {"publish"}
    /\ XText.status = "error"
    /\ xout.effects = <<"auth.sign_in", "projects.get", "datasources.publish",
                        "auth.sign_out">>
    /\ sessions.open = {1} /\ sessions.last = 3

====
